---- MODULE Spec2Model ----
(***************************************************************************)
(* Model of the multi-provider AI gateway: the header-based UsageTracker   *)
(* (src/src/core/usage-tracker.ts), the ModelManager rotation and fallback  *)
(* loop (core/model-manager.ts), the provider adapters and the /chat,       *)
(* /models and /usage routes of src/src/index.ts.                           *)
(*                                                                         *)
(* Time is Date.now() in milliseconds.  Header values are sequences of      *)
(* one-character strings and are parsed the way parseInt, parseFloat and    *)
(* parseGroqDuration parse them.  Configured limits are scaled down.        *)
(***************************************************************************)
EXTENDS Integers, Sequences, FiniteSets, Bags, TLC

\* ------------------------------------------------------------------ bounds
\* Number of /chat requests the model lets the gateway admit.
MaxRequests == 2
\* Clock ticks (of TickMs each) the model lets pass.
MaxTicks == 1

\* Content chunks a provider's stream carries at most.
MaxChunks == 2
\* Calendar days the model lets pass.
MaxDays == 1

\* Milliseconds per clock tick of the model.
TickMs == 1000
\* Date.now() at start-up, in ms (any instant after the epoch).
StartMs == 5000

\* ------------------------------------------------------- JavaScript values
\* parseInt / parseFloat of text holding no number.
NaN == -1000001
\* The value of an optional field that was never set (retryAfter?: number).
Undefined == -1000002

IsNaN(x) == x = NaN
\* JavaScript truthiness of a number | undefined.
TruthyNum(x) == x # Undefined /\ x # NaN /\ x # 0
\* Comparisons: every comparison with NaN is false.
Gt(a, b) == ~IsNaN(a) /\ ~IsNaN(b) /\ a > b
Lt(a, b) == ~IsNaN(a) /\ ~IsNaN(b) /\ a < b
Le(a, b) == ~IsNaN(a) /\ ~IsNaN(b) /\ a <= b
\* Math.ceil(a / b) for an integer a and b > 0.
CeilDiv(a, b) == -((-a) \div b)

DigitVal(c) ==
    CASE c = "0" -> 0 [] c = "1" -> 1 [] c = "2" -> 2 [] c = "3" -> 3
      [] c = "4" -> 4 [] c = "5" -> 5 [] c = "6" -> 6 [] c = "7" -> 7
      [] c = "8" -> 8 [] c = "9" -> 9 [] OTHER -> -1
IsDigit(c) == DigitVal(c) >= 0

\* Value of the longest run of digits of s starting at position i, and the
\* position after it: <<value, next>>.
RECURSIVE DigitRun(_, _, _)
DigitRun(s, i, acc) ==
    IF i <= Len(s) /\ IsDigit(s[i])
    THEN DigitRun(s, i + 1, acc * 10 + DigitVal(s[i]))
    ELSE <<acc, i>>

\* parseInt(s, 10): optional sign, then the leading digits; NaN without any.
parseInt(s) ==
    LET neg   == Len(s) >= 1 /\ s[1] = "-"
        start == IF Len(s) >= 1 /\ (s[1] = "-" \/ s[1] = "+") THEN 2 ELSE 1
        run   == DigitRun(s, start, 0)
    IN  IF run[2] = start THEN NaN
        ELSE IF neg THEN -run[1] ELSE run[1]

\* parseFloat(s) on text without a fraction or an exponent, which is all the
\* model feeds it: the same leading-integer reading.
parseFloat(s) == parseInt(s)

\* parseGroqDuration: sums every <digits><h|m|s> token of the text, in ms.
\* (Fractions "3.5s" are outside the model's inputs.)
RECURSIVE GroqDurationFrom(_, _)
GroqDurationFrom(s, i) ==
    IF i > Len(s) THEN 0
    ELSE IF ~IsDigit(s[i]) THEN GroqDurationFrom(s, i + 1)
    ELSE LET run == DigitRun(s, i, 0)
             j   == run[2]
         IN  IF j > Len(s) THEN 0
             ELSE IF s[j] = "h" THEN run[1] * 3600 * 1000 + GroqDurationFrom(s, j + 1)
             ELSE IF s[j] = "m" THEN run[1] * 60 * 1000 + GroqDurationFrom(s, j + 1)
             ELSE IF s[j] = "s" THEN run[1] * 1000 + GroqDurationFrom(s, j + 1)
             ELSE GroqDurationFrom(s, j)
parseGroqDuration(duration) == GroqDurationFrom(duration, 1)

\* formatDuration(seconds): "<s>s" | "<m>m <s>s" | "<h>h <m>m", kept as its parts.
formatDuration(seconds) ==
    IF seconds < 60 THEN [form |-> "s", h |-> 0, m |-> 0, s |-> seconds]
    ELSE IF seconds < 3600
         THEN [form |-> "m s", h |-> 0, m |-> seconds \div 60, s |-> seconds % 60]
         ELSE [form |-> "h m", h |-> seconds \div 3600,
               m |-> (seconds % 3600) \div 60, s |-> 0]
\* `${n}s`
secondsText(n) == [form |-> "s", h |-> 0, m |-> 0, s |-> n]

\* ------------------------------------------------------------ configuration
\* Configured requestsPerDay of every model (scaled down from 1_000 .. 14_400).
SeedRequests == 1
\* Configured tokensPerMinute of every model (scaled down from 6_000 .. 150_000).
SeedTokens == 2

Limits == [requestsPerDay |-> SeedRequests, tokensPerMinute |-> SeedTokens]

\* config/models.ts `providers`: an enabled and a disabled groq model and an
\* enabled cerebras model.
providers == <<
    [name |-> "groq", models |-> <<
        [id |-> "g1", provider |-> "groq", enabled |-> TRUE, limits |-> Limits],
        [id |-> "gx", provider |-> "groq", enabled |-> FALSE, limits |-> Limits] >>],
    [name |-> "cerebras", models |-> <<
        [id |-> "c1", provider |-> "cerebras", enabled |-> TRUE, limits |-> Limits] >>] >>

RECURSIVE FlatMapModels(_)
FlatMapModels(ps) ==
    IF ps = <<>> THEN <<>>
    ELSE LET IsEnabled(m) == m.enabled
         IN  SelectSeq(Head(ps).models, IsEnabled) \o FlatMapModels(Tail(ps))

\* getEnabledModels(): every enabled model, provider by provider.
getEnabledModels == FlatMapModels(providers)

Range(seq) == {seq[i] : i \in DOMAIN seq}
Includes(seq, x) == x \in Range(seq)

ConfigIds == UNION {{p.models[i].id : i \in DOMAIN p.models} : p \in Range(providers)}

\* -------------------------------------------------------------- UsageTracker
createGroqState(limits) ==
    [remainingRequestsDay  |-> limits.requestsPerDay,
     remainingTokensMinute |-> limits.tokensPerMinute,
     limitRequestsDay      |-> limits.requestsPerDay,
     limitTokensMinute     |-> limits.tokensPerMinute,
     resetRequestsAt       |-> 0,
     resetTokensAt         |-> 0,
     retryAfter            |-> Undefined,
     lastUpdated           |-> 0]

createCerebrasState(limits) ==
    [remainingRequestsDay     |-> limits.requestsPerDay,
     remainingTokensMinute    |-> limits.tokensPerMinute,
     limitRequestsDay         |-> limits.requestsPerDay,
     limitTokensMinute        |-> limits.tokensPerMinute,
     resetRequestsDaySeconds  |-> 0,
     resetTokensMinuteSeconds |-> 0,
     lastUpdated              |-> 0]

\* Milliseconds per calendar day, for new Date().setHours(0, 0, 0, 0).
DayMs == 86400000
\* new Date(t).setHours(0, 0, 0, 0): local midnight of the day of t (the
\* model's local time zone is UTC).
DayStartOf(t) == t - (t % DayMs)

\* A getStats that refills a groq model's request counter to its limit once
\* the stored reset instant has passed.
getStatsReplenishing(S, model, t) ==
    LET dayStart == DayStartOf(t)
        S1 == IF model.id \in DOMAIN S THEN S
              ELSE S @@ (model.id :>
                     [provider       |-> model.provider,
                      rateLimitState |-> IF model.provider = "groq"
                                         THEN createGroqState(model.limits)
                                         ELSE createCerebrasState(model.limits),
                      requestsToday  |-> 0,
                      tokensToday    |-> 0,
                      dayStart       |-> dayStart])
        state == S1[model.id].rateLimitState
    IN  IF model.provider = "groq" /\ state.resetRequestsAt <= t
           /\ state.remainingRequestsDay < state.limitRequestsDay
        THEN [S1 EXCEPT ![model.id].rateLimitState.remainingRequestsDay =
                            state.limitRequestsDay]
        ELSE S1

\* A getStats that moves dayStart to the new day and keeps the daily counters.
getStatsKeepingCounters(S, model, t) ==
    LET dayStart == DayStartOf(t)
        S1 == IF model.id \in DOMAIN S THEN S
              ELSE S @@ (model.id :>
                     [provider       |-> model.provider,
                      rateLimitState |-> IF model.provider = "groq"
                                         THEN createGroqState(model.limits)
                                         ELSE createCerebrasState(model.limits),
                      requestsToday  |-> 0,
                      tokensToday    |-> 0,
                      dayStart       |-> dayStart])
    IN  [S1 EXCEPT ![model.id].dayStart = dayStart]

\* getStats(model) at clock t on the stats map S: the map afterwards (the
\* entry created when missing, the daily counters reset on a new day).
getStats(S, model, t) ==
    LET dayStart == DayStartOf(t)
        S1 == IF model.id \in DOMAIN S THEN S
              ELSE S @@ (model.id :>
                     [provider       |-> model.provider,
                      rateLimitState |-> IF model.provider = "groq"
                                         THEN createGroqState(model.limits)
                                         ELSE createCerebrasState(model.limits),
                      requestsToday  |-> 0,
                      tokensToday    |-> 0,
                      dayStart       |-> dayStart])
    IN  IF S1[model.id].dayStart # dayStart
        THEN [S1 EXCEPT ![model.id].requestsToday = 0,
                        ![model.id].tokensToday = 0,
                        ![model.id].dayStart = dayStart]
        ELSE S1

\* headers.get(name) is truthy: the header is there and is not "".
Has(headers, name) == name \in DOMAIN headers /\ headers[name] # <<>>

updateFromGroqHeaders(state, headers, t) ==
    LET s1 == IF Has(headers, "x-ratelimit-remaining-requests")
              THEN [state EXCEPT !.remainingRequestsDay =
                        parseInt(headers["x-ratelimit-remaining-requests"])]
              ELSE state
        s2 == IF Has(headers, "x-ratelimit-remaining-tokens")
              THEN [s1 EXCEPT !.remainingTokensMinute =
                        parseInt(headers["x-ratelimit-remaining-tokens"])]
              ELSE s1
        s3 == IF Has(headers, "x-ratelimit-limit-requests")
              THEN [s2 EXCEPT !.limitRequestsDay =
                        parseInt(headers["x-ratelimit-limit-requests"])]
              ELSE s2
        s4 == IF Has(headers, "x-ratelimit-limit-tokens")
              THEN [s3 EXCEPT !.limitTokensMinute =
                        parseInt(headers["x-ratelimit-limit-tokens"])]
              ELSE s3
        s5 == IF Has(headers, "x-ratelimit-reset-requests")
              THEN [s4 EXCEPT !.resetRequestsAt =
                        t + parseGroqDuration(headers["x-ratelimit-reset-requests"])]
              ELSE s4
        s6 == IF Has(headers, "x-ratelimit-reset-tokens")
              THEN [s5 EXCEPT !.resetTokensAt =
                        t + parseGroqDuration(headers["x-ratelimit-reset-tokens"])]
              ELSE s5
        s7 == IF Has(headers, "retry-after")
              THEN [s6 EXCEPT !.retryAfter = parseInt(headers["retry-after"])]
              ELSE s6
    IN  [s7 EXCEPT !.lastUpdated = t]

updateFromCerebrasHeaders(state, headers, t) ==
    LET s1 == IF Has(headers, "x-ratelimit-remaining-requests-day")
              THEN [state EXCEPT !.remainingRequestsDay =
                        parseInt(headers["x-ratelimit-remaining-requests-day"])]
              ELSE state
        s2 == IF Has(headers, "x-ratelimit-remaining-tokens-minute")
              THEN [s1 EXCEPT !.remainingTokensMinute =
                        parseInt(headers["x-ratelimit-remaining-tokens-minute"])]
              ELSE s1
        s3 == IF Has(headers, "x-ratelimit-limit-requests-day")
              THEN [s2 EXCEPT !.limitRequestsDay =
                        parseInt(headers["x-ratelimit-limit-requests-day"])]
              ELSE s2
        s4 == IF Has(headers, "x-ratelimit-limit-tokens-minute")
              THEN [s3 EXCEPT !.limitTokensMinute =
                        parseInt(headers["x-ratelimit-limit-tokens-minute"])]
              ELSE s3
        s5 == IF Has(headers, "x-ratelimit-reset-requests-day")
              THEN [s4 EXCEPT !.resetRequestsDaySeconds =
                        parseFloat(headers["x-ratelimit-reset-requests-day"])]
              ELSE s4
        s6 == IF Has(headers, "x-ratelimit-reset-tokens-minute")
              THEN [s5 EXCEPT !.resetTokensMinuteSeconds =
                        parseFloat(headers["x-ratelimit-reset-tokens-minute"])]
              ELSE s5
    IN  [s6 EXCEPT !.lastUpdated = t]

\* updateFromHeaders that never raises a remaining token counter above what the
\* optimistic decrements left.
updateFromHeadersKeepingDecrements(S, modelId, provider, headers, t) ==
    IF modelId \notin DOMAIN S \/ provider \notin {"groq", "cerebras"} THEN S
    ELSE LET old == S[modelId].rateLimitState
             new == IF provider = "groq" THEN updateFromGroqHeaders(old, headers, t)
                    ELSE updateFromCerebrasHeaders(old, headers, t)
         IN  [S EXCEPT ![modelId].rateLimitState =
                 IF Lt(old.remainingTokensMinute, new.remainingTokensMinute)
                 THEN [new EXCEPT !.remainingTokensMinute = old.remainingTokensMinute]
                 ELSE new]

\* updateFromHeaders(modelId, provider, headers) at clock t on the stats map S.
updateFromHeaders(S, modelId, provider, headers, t) ==
    IF modelId \notin DOMAIN S THEN S
    ELSE IF provider = "groq"
         THEN [S EXCEPT ![modelId].rateLimitState =
                   updateFromGroqHeaders(S[modelId].rateLimitState, headers, t)]
         ELSE IF provider = "cerebras"
              THEN [S EXCEPT ![modelId].rateLimitState =
                        updateFromCerebrasHeaders(S[modelId].rateLimitState, headers, t)]
              ELSE S

\* The result of an admission check: allowed, or denied with a reason (the
\* reason's fixed words and the duration it quotes).
Allowed == [allowed |-> TRUE, reason |-> [text |-> "", wait |-> secondsText(0)]]
Denied(text, wait) == [allowed |-> FALSE, reason |-> [text |-> text, wait |-> wait]]

\* canRequestGroq with a request budget that only a negative counter uses up.
canRequestGroqBelowZero(stats, estimatedTokens, t) ==
    LET state == stats.rateLimitState
    IN  IF TruthyNum(state.retryAfter)
           /\ state.lastUpdated + (state.retryAfter * 1000) > t
        THEN Denied("Rate limited: Retry after",
                    secondsText(CeilDiv(state.retryAfter * 1000 - (t - state.lastUpdated), 1000)))
        ELSE IF Lt(state.remainingRequestsDay, 0) /\ state.resetRequestsAt > t
        THEN Denied("Daily requests exhausted: Reset in",
                    formatDuration(CeilDiv(state.resetRequestsAt - t, 1000)))
        ELSE IF Lt(state.remainingTokensMinute, estimatedTokens) /\ state.resetTokensAt > t
        THEN Denied("Token limit (TPM): Reset in",
                    secondsText(CeilDiv(state.resetTokensAt - t, 1000)))
        ELSE Allowed

canRequestGroq(stats, estimatedTokens, t) ==
    LET state == stats.rateLimitState
    IN  IF TruthyNum(state.retryAfter)
           /\ state.lastUpdated + (state.retryAfter * 1000) > t
        THEN Denied("Rate limited: Retry after",
                    secondsText(CeilDiv(state.retryAfter * 1000 - (t - state.lastUpdated), 1000)))
        ELSE IF Le(state.remainingRequestsDay, 0) /\ state.resetRequestsAt > t
        THEN Denied("Daily requests exhausted: Reset in",
                    formatDuration(CeilDiv(state.resetRequestsAt - t, 1000)))
        ELSE IF Lt(state.remainingTokensMinute, estimatedTokens) /\ state.resetTokensAt > t
        THEN Denied("Token limit (TPM): Reset in",
                    secondsText(CeilDiv(state.resetTokensAt - t, 1000)))
        ELSE Allowed

canRequestCerebras(stats, estimatedTokens, t) ==
    LET state == stats.rateLimitState
    IN  IF Le(state.remainingRequestsDay, 0) /\ Gt(state.resetRequestsDaySeconds, 0)
        THEN Denied("Daily requests exhausted: Reset in",
                    formatDuration(state.resetRequestsDaySeconds))
        ELSE IF Lt(state.remainingTokensMinute, estimatedTokens)
                /\ Gt(state.resetTokensMinuteSeconds, 0)
        THEN Denied("Token limit (TPM): Reset in",
                    secondsText(state.resetTokensMinuteSeconds))
        ELSE Allowed

\* canRequest(model, estimatedInputTokens) at clock t on the stats map S: the
\* stats map after getStats, and the check's result.
canRequest(S, model, estimatedInputTokens, t) ==
    LET S1 == getStats(S, model, t)
    IN  [stats |-> S1,
         check |-> IF model.provider = "groq"
                   THEN canRequestGroq(S1[model.id], estimatedInputTokens, t)
                   ELSE canRequestCerebras(S1[model.id], estimatedInputTokens, t)]

\* Arithmetic on numbers that may be NaN.
Plus(a, b) == IF IsNaN(a) \/ IsNaN(b) THEN NaN ELSE a + b
Times(a, b) == IF IsNaN(a) \/ IsNaN(b) THEN NaN ELSE a * b
\* formatDuration of a number that may be NaN: `NaNh NaNm`.
formatSeconds(seconds) ==
    IF IsNaN(seconds) THEN [form |-> "h m", h |-> NaN, m |-> NaN, s |-> 0]
    ELSE formatDuration(seconds)
\* The text 'now' of a reset that is not in the future.
nowText == [form |-> "now", h |-> 0, m |-> 0, s |-> 0]

\* getRemainingCapacity(model) at clock t on the stats map S: the stats map
\* after getStats, and the capacity reported.
getRemainingCapacity(S, model, t) ==
    LET S1    == getStats(S, model, t)
        state == S1[model.id].rateLimitState
    IN  [stats |-> S1,
         report |->
           IF model.provider = "groq"
           THEN [requests        |-> state.remainingRequestsDay,
                 tokens          |-> state.remainingTokensMinute,
                 requestsResetAt |-> state.resetRequestsAt,
                 tokensResetAt   |-> state.resetTokensAt]
           ELSE [requests        |-> state.remainingRequestsDay,
                 tokens          |-> state.remainingTokensMinute,
                 requestsResetAt |-> Plus(t, Times(state.resetRequestsDaySeconds, 1000)),
                 tokensResetAt   |-> Plus(t, Times(state.resetTokensMinuteSeconds, 1000))]]

\* getRateLimitInfo(model) at clock t on the stats map S: the stats map after
\* getStats, and the info reported; resetInfo is kept as its two durations.
getRateLimitInfo(S, model, t) ==
    LET S1    == getStats(S, model, t)
        state == S1[model.id].rateLimitState
    IN  [stats |-> S1,
         report |->
           [provider          |-> model.provider,
            remainingRequests |-> state.remainingRequestsDay,
            remainingTokens   |-> state.remainingTokensMinute,
            limitRequests     |-> state.limitRequestsDay,
            limitTokens       |-> state.limitTokensMinute,
            resetInfo |->
              IF model.provider = "groq"
              THEN [requests |-> IF state.resetRequestsAt > t
                                 THEN formatDuration(CeilDiv(state.resetRequestsAt - t, 1000))
                                 ELSE nowText,
                    tokens   |-> IF state.resetTokensAt > t
                                 THEN secondsText(CeilDiv(state.resetTokensAt - t, 1000))
                                 ELSE nowText]
              ELSE [requests |-> formatSeconds(state.resetRequestsDaySeconds),
                    tokens   |-> secondsText(state.resetTokensMinuteSeconds)],
            lastUpdated |-> state.lastUpdated]]

\* A recordRequest that lowers the limit fields along with the remaining
\* counters.
recordRequestLoweringLimits(S, model, inputTokens, t) ==
    LET S1    == getStats(S, model, t)
        st    == S1[model.id]
        state == st.rateLimitState
        r1    == IF Gt(state.remainingRequestsDay, 0)
                 THEN [state EXCEPT !.remainingRequestsDay = @ - 1,
                                    !.limitRequestsDay = @ - 1] ELSE state
        r2    == IF Gt(state.remainingTokensMinute, 0)
                 THEN [r1 EXCEPT !.remainingTokensMinute = @ - inputTokens,
                                 !.limitTokensMinute = @ - inputTokens] ELSE r1
    IN  [S1 EXCEPT ![model.id] =
            [st EXCEPT !.requestsToday = @ + 1,
                       !.tokensToday = @ + inputTokens,
                       !.rateLimitState = r2]]

\* A recordRequest that counts the request against every model the tracker
\* knows.
recordRequestChargingAll(S, model, inputTokens, t) ==
    LET S1 == getStats(S, model, t)
    IN  [id \in DOMAIN S1 |->
            [S1[id] EXCEPT !.requestsToday = @ + 1,
                           !.tokensToday = @ + inputTokens,
                           !.rateLimitState.remainingRequestsDay =
                               IF Gt(@, 0) THEN @ - 1 ELSE @]]

\* recordRequest(model, provider, inputTokens) at clock t on the stats map S.
recordRequest(S, model, inputTokens, t) ==
    LET S1    == getStats(S, model, t)
        st    == S1[model.id]
        state == st.rateLimitState
        r1    == IF Gt(state.remainingRequestsDay, 0)
                 THEN [state EXCEPT !.remainingRequestsDay = @ - 1] ELSE state
        r2    == IF Gt(state.remainingTokensMinute, 0)
                 THEN [r1 EXCEPT !.remainingTokensMinute = @ - inputTokens] ELSE r1
    IN  [S1 EXCEPT ![model.id] =
            [st EXCEPT !.requestsToday = @ + 1,
                       !.tokensToday = @ + inputTokens,
                       !.rateLimitState = r2]]

\* A recordUsage that also charges the input tokens to the model's minute
\* budget.
recordUsageCharging(T, modelId, provider, inputTokens, outputTokens, t) ==
    [stats |-> IF modelId \in DOMAIN T.stats
               THEN [T.stats EXCEPT ![modelId].rateLimitState.remainingTokensMinute =
                                        @ - inputTokens]
               ELSE T.stats,
     history |-> Append(T.history, [modelId |-> modelId, provider |-> provider,
                                    timestamp |-> t, inputTokens |-> inputTokens,
                                    outputTokens |-> outputTokens])]

\* A recordUsage that drops one entry, the oldest, once over the cap.
recordUsageDroppingOldest(T, modelId, provider, inputTokens, outputTokens, t) ==
    LET pushed == Append(T.history, [modelId |-> modelId, provider |-> provider,
                                     timestamp |-> t, inputTokens |-> inputTokens,
                                     outputTokens |-> outputTokens])
    IN  [stats |-> T.stats,
         history |-> IF Len(pushed) > 10000 THEN Tail(pushed) ELSE pushed]

\* recordUsage(modelId, provider, inputTokens, outputTokens) at clock t on the
\* tracker T (its stats and history): push, then keep the newest
\* maxHistorySize / 2 once over the cap.
maxHistorySize == 10000
recordUsage(T, modelId, provider, inputTokens, outputTokens, t) ==
    LET pushed == Append(T.history, [modelId |-> modelId, provider |-> provider,
                                     timestamp |-> t, inputTokens |-> inputTokens,
                                     outputTokens |-> outputTokens])
    IN  [stats |-> T.stats,
         history |-> IF Len(pushed) > maxHistorySize
                     THEN SubSeq(pushed, Len(pushed) - (maxHistorySize \div 2) + 1,
                                 Len(pushed))
                     ELSE pushed]

\* ------------------------------------------------------------- ModelManager
Strategies == {"round-robin", "random", "least-used"}

\* A message: a role ("" when missing) and a content, given by its length
\* when it is a string and NotString otherwise.
NotString == -1
Message(role, content) == [role |-> role, content |-> content]
ContentLength(m) == IF m.content = NotString THEN 0 ELSE m.content

\* constructor: the candidate list left by the provider and id filters.
ConstructModels(options) ==
    LET ByProvider(m) == Includes(options.providers, m.provider)
        ById(m)       == Includes(options.modelIds, m.id)
        m0 == getEnabledModels
        m1 == IF Len(options.providers) > 0 THEN SelectSeq(m0, ByProvider) ELSE m0
    IN  IF Len(options.modelIds) > 0 THEN SelectSeq(m1, ById) ELSE m1

RECURSIVE SumLengths(_)
SumLengths(messages) ==
    IF messages = <<>> THEN 0
    ELSE ContentLength(Head(messages)) + SumLengths(Tail(messages))

\* ModelManager.estimateTokens: Math.ceil(totalChars / 4).
estimateTokens(messages) == CeilDiv(SumLengths(messages), 4)

\* usageCount.get(id) ?? 0
CountOf(uc, id) == IF id \in DOMAIN uc THEN uc[id] ELSE 0

\* A sort that leaves the list as it is.
KeepListOrder(ms, uc) == ms

\* [...models].sort((a, b) => aCount - bCount): a stable sort, by insertion.
RECURSIVE InsertByCount(_, _, _)
InsertByCount(sorted, m, uc) ==
    IF sorted = <<>> THEN <<m>>
    ELSE IF CountOf(uc, m.id) < CountOf(uc, Head(sorted).id)
         THEN <<m>> \o sorted
         ELSE <<Head(sorted)>> \o InsertByCount(Tail(sorted), m, uc)
RECURSIVE SortByCount(_, _)
SortByCount(ms, uc) ==
    IF ms = <<>> THEN <<>>
    ELSE InsertByCount(SortByCount(SubSeq(ms, 1, Len(ms) - 1), uc), ms[Len(ms)], uc)

\* A selection that returns the candidate at the cursor and leaves the cursor.
selectAtCursor(mgr) ==
    {[model |-> mgr.models[mgr.currentIndex + 1], currentIndex |-> mgr.currentIndex]}

\* A selection whose round-robin cursor counts up without wrapping.
selectCountingUp(mgr) ==
    CASE mgr.strategy = "round-robin" ->
           {[model |-> mgr.models[(mgr.currentIndex % Len(mgr.models)) + 1],
             currentIndex |-> mgr.currentIndex + 1]}
      [] mgr.strategy = "random" ->
           {[model |-> mgr.models[i], currentIndex |-> mgr.currentIndex]
              : i \in DOMAIN mgr.models}
      [] mgr.strategy = "least-used" ->
           {[model |-> SortByCount(mgr.models, mgr.usageCount)[1],
             currentIndex |-> mgr.currentIndex]}
      [] OTHER ->
           {[model |-> mgr.models[1], currentIndex |-> mgr.currentIndex]}

\* A selection whose round-robin cursor moves two places on.
selectSkippingOne(mgr) ==
    CASE mgr.strategy = "round-robin" ->
           {[model |-> mgr.models[mgr.currentIndex + 1],
             currentIndex |-> (mgr.currentIndex + 2) % Len(mgr.models)]}
      [] mgr.strategy = "random" ->
           {[model |-> mgr.models[i], currentIndex |-> mgr.currentIndex]
              : i \in DOMAIN mgr.models}
      [] mgr.strategy = "least-used" ->
           {[model |-> SortByCount(mgr.models, mgr.usageCount)[1],
             currentIndex |-> mgr.currentIndex]}
      [] OTHER ->
           {[model |-> mgr.models[1], currentIndex |-> mgr.currentIndex]}

\* selectByStrategy(): the models it can return, each with the cursor it
\* leaves.  `mgr` is the manager: models, currentIndex, strategy,
\* autoFallback, usageCount.  currentIndex counts from 0 as in the source.
selectByStrategy(mgr) ==
    CASE mgr.strategy = "round-robin" ->
           {[model |-> mgr.models[mgr.currentIndex + 1],
             currentIndex |-> (mgr.currentIndex + 1) % Len(mgr.models)]}
      [] mgr.strategy = "random" ->
           {[model |-> mgr.models[i], currentIndex |-> mgr.currentIndex]
              : i \in DOMAIN mgr.models}
      [] mgr.strategy = "least-used" ->
           {[model |-> SortByCount(mgr.models, mgr.usageCount)[1],
             currentIndex |-> mgr.currentIndex]}
      [] OTHER ->
           {[model |-> mgr.models[1], currentIndex |-> mgr.currentIndex]}

\* `${model.provider}/${model.id}: ${check.reason}`
SkipEntry(model, reason) == [provider |-> model.provider, id |-> model.id, reason |-> reason]

NoModel == [id |-> "", provider |-> "", enabled |-> FALSE, limits |-> Limits]

\* An admission count kept only while the least-used strategy is active.
countWhenLeastUsed(mgr, id) ==
    IF mgr.strategy = "least-used"
    THEN (id :> (CountOf(mgr.usageCount, id) + 1)) @@ mgr.usageCount
    ELSE mgr.usageCount

\* usageCount.set(model.id, (usageCount.get(model.id) ?? 0) + 1): the
\* counters afterwards.
countAdmission(mgr, id) ==
    (id :> (CountOf(mgr.usageCount, id) + 1)) @@ mgr.usageCount

\* A loop that returns the selected candidate without consulting canRequest.
NextModelUnchecked(mgr, S, skipped, checked, estimatedTokens, t) ==
    { [kind |-> "admitted", model |-> sel.model, skipped |-> skipped,
       checked |-> Append(checked, sel.model.id),
       mgr |-> [mgr EXCEPT !.currentIndex = sel.currentIndex,
                           !.usageCount =
                              (sel.model.id :> (CountOf(mgr.usageCount, sel.model.id) + 1)) @@ @],
       stats |-> getStats(S, sel.model, t)]
      : sel \in selectByStrategy(mgr) }

\* A loop that goes round once more before it gives up: attempts <= length.
RECURSIVE NextModelLoopOnceMore(_, _, _, _, _, _)
NextModelLoopOnceMore(mgr, S, skipped, checked, estimatedTokens, t) ==
    IF ~(Len(skipped) <= Len(mgr.models))
    THEN {[kind |-> "exhausted", model |-> NoModel, skipped |-> skipped,
           checked |-> checked, mgr |-> mgr, stats |-> S]}
    ELSE UNION {
           LET model == sel.model
               mgr1  == [mgr EXCEPT !.currentIndex = sel.currentIndex]
               res   == canRequest(S, model, estimatedTokens, t)
               seen  == Append(checked, model.id)
           IN  IF res.check.allowed
               THEN {[kind |-> "admitted", model |-> model, skipped |-> skipped,
                      checked |-> seen,
                      mgr |-> [mgr1 EXCEPT !.usageCount =
                                  (model.id :> (CountOf(mgr.usageCount, model.id) + 1)) @@ @],
                      stats |-> res.stats]}
               ELSE IF mgr.autoFallback
                    THEN NextModelLoopOnceMore(mgr1, res.stats,
                                       Append(skipped, SkipEntry(model, res.check.reason)),
                                       seen, estimatedTokens, t)
                    ELSE {[kind |-> "rejected", model |-> NoModel,
                           skipped |-> <<SkipEntry(model, res.check.reason)>>,
                           checked |-> seen, mgr |-> mgr1, stats |-> res.stats]}
           : sel \in selectByStrategy(mgr) }

\* The while loop of getNextModel from a loop state: every way it can end.
\* An outcome is the result ("admitted", or the error thrown: "exhausted" for
\* `All models rate limited`, "rejected" for `Model ... rate limited`), the
\* model and skipped list returned or the reasons thrown, the candidates
\* checked in order, and the manager and stats map left behind.
RECURSIVE NextModelLoop(_, _, _, _, _, _)
NextModelLoop(mgr, S, skipped, checked, estimatedTokens, t) ==
    IF ~(Len(skipped) < Len(mgr.models))
    THEN {[kind |-> "exhausted", model |-> NoModel, skipped |-> skipped,
           checked |-> checked, mgr |-> mgr, stats |-> S]}
    ELSE UNION {
           LET model == sel.model
               mgr1  == [mgr EXCEPT !.currentIndex = sel.currentIndex]
               res   == canRequest(S, model, estimatedTokens, t)
               seen  == Append(checked, model.id)
           IN  IF res.check.allowed
               THEN {[kind |-> "admitted", model |-> model, skipped |-> skipped,
                      checked |-> seen,
                      mgr |-> [mgr1 EXCEPT !.usageCount = countAdmission(mgr, model.id)],
                      stats |-> res.stats]}
               ELSE IF mgr.autoFallback
                    THEN NextModelLoop(mgr1, res.stats,
                                       Append(skipped, SkipEntry(model, res.check.reason)),
                                       seen, estimatedTokens, t)
                    ELSE {[kind |-> "rejected", model |-> NoModel,
                           skipped |-> <<SkipEntry(model, res.check.reason)>>,
                           checked |-> seen, mgr |-> mgr1, stats |-> res.stats]}
           : sel \in selectByStrategy(mgr) }

\* getNextModel(messages) at clock t: the set of its possible outcomes.
getNextModel(mgr, S, messages, t) ==
    NextModelLoop(mgr, S, <<>>, <<>>, estimateTokens(messages), t)

\* A lookup that answers an id it does not find with the first candidate.
getModelOrFirst(mgr, modelId) ==
    IF \E i \in DOMAIN mgr.models : mgr.models[i].id = modelId
    THEN mgr.models[CHOOSE i \in DOMAIN mgr.models : mgr.models[i].id = modelId]
    ELSE mgr.models[1]

\* getModel(modelId): this.models.find(m => m.id === modelId), NoModel for
\* undefined.
getModel(mgr, modelId) ==
    IF \E i \in DOMAIN mgr.models : mgr.models[i].id = modelId
    THEN mgr.models[CHOOSE i \in DOMAIN mgr.models :
                       /\ mgr.models[i].id = modelId
                       /\ \A j \in 1..(i - 1) : mgr.models[j].id # modelId]
    ELSE NoModel

\* ------------------------------------------------------------------- state
VARIABLES
    now,          \* Date.now()
    stats,        \* UsageTracker.stats: model id -> UsageStats
    history,      \* UsageTracker.history
    options,      \* the ModelManagerOptions the manager was constructed with
    models,       \* ModelManager.models ( <<>> when the constructor threw )
    currentIndex, \* ModelManager.currentIndex
    strategy,     \* ModelManager.strategy
    autoFallback, \* ModelManager.autoFallback
    usageCount,   \* ModelManager.usageCount: model id -> count
    inflight,     \* bag of /chat requests waiting at an await
    started,      \* number of /chat requests admitted so far
    last,         \* the latest handler step: what it was given and what it did
    rrRun         \* ids returned by the latest consecutive clean round-robin calls

vars == <<now, stats, history, options, models, currentIndex, strategy, autoFallback,
          usageCount, inflight, started, last, rrRun>>

\* The manager's fields, read as if autoFallback were on.
ManagerFallingBack == [models |-> models, currentIndex |-> currentIndex, strategy |-> strategy,
                       autoFallback |-> TRUE, usageCount |-> usageCount]

Manager == [models |-> models, currentIndex |-> currentIndex, strategy |-> strategy,
            autoFallback |-> autoFallback, usageCount |-> usageCount]

EmptyMap == [k \in {} |-> 0]
NoHeaders == [k \in {} |-> <<>>]
NoEntry == [provider |-> ""]

\* `last` for a step `op`; the steps fill in what applies to them.
Event(op) ==
    [op |-> op, status |-> 0, model |-> "", requested |-> "", estimate |-> 0,
     cost |-> 0, kind |-> "", skipped |-> <<>>, checked |-> <<>>,
     admissible |-> {}, strategy |-> "", autoFallback |-> FALSE,
     cursorBefore |-> 0, headers |-> NoHeaders, messages |-> <<>>,
     entryAtCheck |-> NoEntry, entryAtRecord |-> NoEntry, entryBefore |-> NoEntry]

\* `last` after a step no property looks back at.
Idle == Event("idle")

\* ------------------------------------------------------------------ inputs
\* ModelManagerOptions the gateway may be constructed with: those of
\* index.ts, the same without auto-fallback, and two filtered ones (the last
\* one leaves no candidate).
ManagerOptions ==
    { [strategy |-> "round-robin", autoFallback |-> TRUE,
       providers |-> <<>>, modelIds |-> <<>>],
      [strategy |-> "round-robin", autoFallback |-> FALSE,
       providers |-> <<>>, modelIds |-> <<"c1", "g1", "gx">>],
      [strategy |-> "least-used", autoFallback |-> TRUE,
       providers |-> <<"cerebras">>, modelIds |-> <<>>],
      [strategy |-> "random", autoFallback |-> TRUE,
       providers |-> <<"cerebras">>, modelIds |-> <<"g1">>] }

\* Bodies of POST /chat, each the messages and the optional model id ("" for
\* none): one that fails validation, two left to the rotation (of estimates 0
\* and 1) and one for each requested id.
RequestedIds == {"", "c1", "gx"}
Bodies ==
    { [messages |-> <<Message("", 1)>>, model |-> ""],
      [messages |-> <<Message("user", NotString)>>, model |-> ""] }
    \cup { [messages |-> <<Message("user", 1), Message("user", 1)>>, model |-> id]
             : id \in RequestedIds }

\* Response headers of the providers.
GroqHeaderSets ==
    { [k \in {"x-ratelimit-remaining-requests", "x-ratelimit-remaining-tokens",
              "x-ratelimit-limit-requests", "x-ratelimit-limit-tokens",
              "x-ratelimit-reset-requests", "x-ratelimit-reset-tokens"} |->
          CASE k = "x-ratelimit-remaining-requests" -> <<"0">>
            [] k = "x-ratelimit-remaining-tokens"   -> <<"1">>
            [] k = "x-ratelimit-limit-requests"     -> <<"2">>
            [] k = "x-ratelimit-limit-tokens"       -> <<"3">>
            [] k = "x-ratelimit-reset-requests"     -> <<"2", "s">>
            [] k = "x-ratelimit-reset-tokens"       -> <<"1", "s">>],
      [k \in {"x-ratelimit-remaining-requests", "x-ratelimit-reset-requests",
              "retry-after"} |->
          CASE k = "x-ratelimit-remaining-requests" -> <<"-", "1">>
            [] k = "x-ratelimit-reset-requests"     -> <<"2", "s">>
            [] k = "retry-after"                    -> <<"1">>] }

CerebrasHeaderSets ==
    { [k \in {"x-ratelimit-remaining-requests-day", "x-ratelimit-remaining-tokens-minute",
              "x-ratelimit-limit-requests-day", "x-ratelimit-limit-tokens-minute",
              "x-ratelimit-reset-requests-day", "x-ratelimit-reset-tokens-minute"} |->
          CASE k = "x-ratelimit-remaining-requests-day"  -> <<"0">>
            [] k = "x-ratelimit-remaining-tokens-minute" -> <<"1">>
            [] k = "x-ratelimit-limit-requests-day"      -> <<"2">>
            [] k = "x-ratelimit-limit-tokens-minute"     -> <<"3">>
            [] k = "x-ratelimit-reset-requests-day"      -> <<"1">>
            [] k = "x-ratelimit-reset-tokens-minute"     -> <<"1">>],
      [k \in {"x-ratelimit-remaining-requests-day", "x-ratelimit-reset-requests-day",
              "x-ratelimit-remaining-tokens-minute", "x-ratelimit-reset-tokens-minute"} |->
          CASE k = "x-ratelimit-remaining-requests-day"  -> <<"1">>
            [] k = "x-ratelimit-reset-requests-day"      -> <<"x">>
            [] k = "x-ratelimit-remaining-tokens-minute" -> <<"0">>
            [] k = "x-ratelimit-reset-tokens-minute"     -> <<"1">>] }

\* The two header sets that report a used-up request budget.
ExhaustedHeaderSets ==
    {h \in GroqHeaderSets \cup CerebrasHeaderSets :
        \/ Has(h, "x-ratelimit-limit-requests")
        \/ Has(h, "x-ratelimit-limit-requests-day")}

HeaderSets(provider) == IF provider = "groq" THEN GroqHeaderSets ELSE CerebrasHeaderSets

\* -------------------------------------------------------------------- Init
\* new ModelManager(options) and the singleton tracker.  A constructor that
\* throws leaves no gateway: models stays <<>>.
InitWith(opts) ==
    /\ now = StartMs
    /\ stats = EmptyMap
    /\ history = <<>>
    /\ options = opts
    /\ models = ConstructModels(opts)
    /\ strategy = opts.strategy
    /\ autoFallback = opts.autoFallback
    /\ currentIndex = 0
    /\ usageCount = EmptyMap
    /\ inflight = EmptyBag
    /\ started = 0
    /\ last = Event("init")
    /\ rrRun = [ids |-> <<>>, fresh |-> TRUE]

\* index.ts: new ModelManager({strategy: 'round-robin', autoFallback: true}).
IndexOptions == [strategy |-> "round-robin", autoFallback |-> TRUE,
                 providers |-> <<>>, modelIds |-> <<>>]

Init == InitWith(IndexOptions)

\* A gateway built with any of the options.
InitManager == \E opts \in ManagerOptions : InitWith(opts)

\* A gateway that runs whatever the constructor did.
RunningRegardless == TRUE

Running == Len(models) > 0

\* ------------------------------------------------------------ POST /chat
\* index.ts estimatedTokens: the sum of Math.ceil(content.length / 4).
RECURSIVE estimatedTokens(_)
estimatedTokens(messages) ==
    IF messages = <<>> THEN 0
    ELSE CeilDiv(ContentLength(Head(messages)), 4) + estimatedTokens(Tail(messages))

\* The candidates canRequest allows for a cost at clock t.
Admissible(mgr, S, cost, t) ==
    {mgr.models[i].id : i \in {j \in DOMAIN mgr.models :
                                  canRequest(S, mgr.models[j], cost, t).check.allowed}}

\* Lines 111-140 of the handler: validation, then the model requested or the
\* next one in rotation.  Each outcome: the status answered (0: none yet, the
\* handler goes on), the model, the estimate the check was given, and the
\* manager and stats map left behind.
\* The message of the error getNextModel throws, up to the reasons it lists:
\* `All models rate limited:` or `Model <id> rate limited:`, as characters.
RateLimitedText == <<" ", "r", "a", "t", "e", " ", "l", "i", "m", "i", "t", "e", "d", ":">>
ErrorMessage(kind) ==
    IF kind = "exhausted"
    THEN <<"A", "l", "l", " ", "m", "o", "d", "e", "l", "s">> \o RateLimitedText
    ELSE <<"M", "o", "d", "e", "l", " ", "?">> \o RateLimitedText

\* String.prototype.includes.
StringIncludes(text, part) ==
    \E i \in 1..(Len(text) - Len(part) + 1) : SubSeq(text, i, i + Len(part) - 1) = part

\* A catch block that answers every error with 500.
CatchStatusInternal(message) == 500

\* The catch block of the handler: 429 when the message includes `rate limit`.
CatchStatus(message) ==
    IF StringIncludes(message, <<"r", "a", "t", "e", " ", "l", "i", "m", "i", "t">>)
    THEN 429 ELSE 500

ChatSelect(mgr, S, messages, requestedModelId, t) ==
    LET Out(status, kind, model, est, skipped, checked, m, S1) ==
            [status |-> status, kind |-> kind, model |-> model, estimate |-> est,
             skipped |-> skipped, checked |-> checked, mgr |-> m, stats |-> S1]
    IN  IF messages = <<>> \/ \E i \in DOMAIN messages : messages[i].role = ""
        THEN {Out(400, "invalid", NoModel, 0, <<>>, <<>>, mgr, S)}
        ELSE IF requestedModelId # ""
        THEN LET model == getModel(mgr, requestedModelId)
                 res   == canRequest(S, model, 0, t)
             IN  IF model = NoModel
                 THEN {Out(404, "not-found", NoModel, 0, <<>>, <<>>, mgr, S)}
                 ELSE IF ~res.check.allowed
                      THEN {Out(429, "requested-denied", NoModel, 0,
                                <<SkipEntry(model, res.check.reason)>>, <<model.id>>,
                                mgr, res.stats)}
                      ELSE {Out(0, "requested", model, 0, <<>>, <<model.id>>,
                                mgr, res.stats)}
        ELSE {Out(IF o.kind = "admitted" THEN 0 ELSE CatchStatus(ErrorMessage(o.kind)),
                  o.kind, o.model,
                  estimateTokens(messages), o.skipped, o.checked, o.mgr, o.stats)
                : o \in getNextModel(mgr, S, messages, t)}

\* A handler that awaits between its admission check and its recordRequest.
YieldsAfterCheck == TRUE

\* Whether the handler gives up the thread between its admission check and
\* its recordRequest: lines 141-157 hold no await.
YieldsBeforeRecord == FALSE

\* An in-flight request: where its handler waits ("selected": before
\* recordRequest; "calling": in provider.chat, before the response headers;
\* "streaming": while the chunks are written), its model, the cost it is
\* charged and the budget entry its admission check saw; once it streams, the
\* number of content chunks its provider stream carries and how many of them
\* the generator has yielded.
Request(phase, model, cost, entryAtCheck) ==
    [phase |-> phase, id |-> model.id, provider |-> model.provider,
     cost |-> cost, entryAtCheck |-> entryAtCheck, chunks |-> 0, yielded |-> 0]

ModelOf(req) == getModel([models |-> getEnabledModels], req.id)

\* rrRun after a getNextModel call: a clean round-robin call extends the run
\* (the newest Len(models) ids are kept), any other call ends it.
RunAfter(run, o, strat, K) ==
    IF o.kind \notin {"admitted", "exhausted", "rejected"} THEN run
    ELSE IF strat = "round-robin" /\ o.kind = "admitted" /\ o.skipped = <<>>
         THEN LET ids == Append(run.ids, o.model.id)
              IN  IF Len(ids) > K
                  THEN [ids |-> Tail(ids), fresh |-> FALSE]
                  ELSE [ids |-> ids, fresh |-> run.fresh]
         ELSE [ids |-> <<>>, fresh |-> FALSE]

\* Lines 150-157 for a selected request: the estimate and recordRequest; the
\* handler then waits in provider.chat.
RecordStep(S, req, ev, t) ==
    LET model == ModelOf(req)
    IN  /\ stats' = recordRequest(S, model, req.cost, t)
        /\ last' = [ev EXCEPT !.cost = req.cost,
                              !.entryAtCheck = req.entryAtCheck,
                              !.entryAtRecord = getStats(S, model, t)[req.id]]

\* POST /chat arrives; the handler runs up to its first await.
Chat(messages, requestedModelId) ==
    /\ Running
    /\ \E o \in ChatSelect(Manager, stats, messages, requestedModelId, now) :
         LET ev == [Event("chat") EXCEPT
                       !.status = o.status, !.model = o.model.id,
                       !.requested = requestedModelId, !.estimate = o.estimate,
                       !.messages = messages,
                       !.kind = o.kind, !.skipped = o.skipped, !.checked = o.checked,
                       !.admissible = Admissible(Manager, stats, o.estimate, now),
                       !.strategy = strategy, !.autoFallback = autoFallback,
                       !.cursorBefore = currentIndex]
             req == Request("selected", o.model, estimatedTokens(messages),
                            o.stats[o.model.id])
         IN  /\ o.status = 0 => started < MaxRequests
             /\ started' = IF o.status = 0 THEN started + 1 ELSE started
             /\ currentIndex' = o.mgr.currentIndex
             /\ usageCount' = o.mgr.usageCount
             /\ rrRun' = RunAfter(rrRun, o, strategy, Len(models))
             /\ IF o.status # 0
                THEN /\ stats' = o.stats
                     /\ last' = ev
                     /\ inflight' = inflight
                ELSE IF YieldsBeforeRecord
                THEN /\ stats' = o.stats
                     /\ last' = [ev EXCEPT !.op = "selected"]
                     /\ inflight' = inflight (+) SetToBag({req})
                ELSE /\ RecordStep(o.stats, req, ev, now)
                     /\ inflight' = inflight (+)
                            SetToBag({Request("calling", o.model, 0, NoEntry)})
    /\ UNCHANGED <<now, history, options, models, strategy, autoFallback>>

\* Token counts the provider's stream reports in its chunks (0/0 when none).
UsageReports == { [inputTokens |-> 1, outputTokens |-> 2] }

\* Streams whose content the model takes in one piece (no chunk of their own).
Unchunked == {0}

\* A generator that takes its stream for drained at any time.
DrainedEarly(req) == TRUE

\* `for await (const chunk of stream)` of the adapter's generator has ended:
\* every content chunk was yielded.
Drained(req) == req.yielded = req.chunks

\* An awaited promise of an in-flight request settles and its handler runs on
\* to the next await: past recordRequest (when it yielded before it), past
\* provider.chat (groq.ts / cerebras.ts: the response arrived with a stream of
\* `chunks` content chunks, updateFromHeaders), past one chunk the generator
\* yields and the handler writes, or past the drained stream (recordUsage,
\* the usage promise resolves).
Resume(req, headers, usage, chunks) ==
    /\ req \in BagToSet(inflight)
    /\ LET rest == inflight (-) SetToBag({req})
       IN  IF req.phase = "selected"
           THEN /\ RecordStep(stats, req, [Event("chat") EXCEPT !.model = req.id], now)
                /\ inflight' = rest (+) SetToBag({Request("calling", ModelOf(req), 0, NoEntry)})
                /\ history' = history
           ELSE IF req.phase = "calling"
           THEN /\ stats' = updateFromHeaders(stats, req.id, req.provider, headers, now)
                /\ last' = [Event("updateFromHeaders") EXCEPT
                               !.model = req.id, !.headers = headers,
                               !.entryBefore = IF req.id \in DOMAIN stats
                                               THEN stats[req.id] ELSE NoEntry]
                /\ inflight' = rest (+) SetToBag({[req EXCEPT !.phase = "streaming",
                                                              !.chunks = chunks]})
                /\ history' = history
           ELSE IF ~Drained(req)
           THEN /\ inflight' = rest (+) SetToBag({[req EXCEPT !.yielded = @ + 1]})
                /\ last' = Idle
                /\ UNCHANGED <<stats, history>>
           ELSE LET T == recordUsage([stats |-> stats, history |-> history],
                                     req.id, req.provider,
                                     usage.inputTokens, usage.outputTokens, now)
                IN  /\ history' = T.history
                    /\ stats' = T.stats
                    /\ last' = Idle
                    /\ inflight' = rest
    /\ UNCHANGED <<now, options, models, currentIndex, strategy, autoFallback, usageCount,
                   started, rrRun>>

\* Failure handlers that give the request's charge back.
onFailureRefunding(S, req) ==
    IF req.id \in DOMAIN S
    THEN [S EXCEPT ![req.id].requestsToday = @ - 1,
                   ![req.id].rateLimitState.remainingRequestsDay = @ + 1]
    ELSE S

\* Failure handlers that drop the budget entry of the failed request's model.
onFailureForgetting(S, req) == [id \in DOMAIN S \ {req.id} |-> S[id]]

\* The stats map after the handlers of a failed request have run: the catch
\* block, stream.onAbort and the stream's error callback log and answer;
\* none of them calls the tracker.
onFailure(S, req) == S

\* The provider call rejects or the stream breaks off (an API error, a client
\* abort).
Fail(req) ==
    /\ req \in BagToSet(inflight)
    /\ req.phase \in {"calling", "streaming"}
    /\ inflight' = inflight (-) SetToBag({req})
    /\ stats' = onFailure(stats, req)
    /\ last' = Idle
    /\ UNCHANGED <<now, history, options, models, currentIndex, strategy, autoFallback,
                   usageCount, started, rrRun>>

\* --------------------------------------------------- GET /models, GET /usage
RECURSIVE TouchAll(_, _, _)
TouchAll(S, ms, t) ==
    IF ms = <<>> THEN S ELSE TouchAll(getStats(S, Head(ms), t), Tail(ms), t)

\* GET /models: getStatus (canRequest and getRemainingCapacity per model) and
\* getRateLimitInfo; every one of them goes through getStats.
GetModels ==
    /\ Running
    /\ stats' = TouchAll(stats, models, now)
    /\ last' = Idle
    /\ UNCHANGED <<now, history, options, models, currentIndex, strategy, autoFallback,
                   usageCount, inflight, started, rrRun>>

\* GET /usage: getRateLimitInfo, getRemainingCapacity, getUsageStats per model.
GetUsage ==
    /\ Running
    /\ stats' = TouchAll(stats, models, now)
    /\ last' = Idle
    /\ UNCHANGED <<now, history, options, models, currentIndex, strategy, autoFallback,
                   usageCount, inflight, started, rrRun>>

\* A setStrategy that also starts the rotation over.
setStrategyRestarting(s) ==
    /\ Len(models) > 0
    /\ strategy' = s
    /\ currentIndex' = 0
    /\ last' = Idle
    /\ UNCHANGED <<now, stats, history, options, models, autoFallback,
                   usageCount, inflight, started, rrRun>>

\* ------------------------------------------------- ModelManager's setters
setStrategy(s) ==
    /\ Running
    /\ strategy' = s
    /\ last' = Idle
    /\ UNCHANGED <<now, stats, history, options, models, currentIndex, autoFallback,
                   usageCount, inflight, started, rrRun>>

resetUsageCount ==
    /\ Running
    /\ usageCount' = EmptyMap
    /\ last' = Idle
    /\ UNCHANGED <<now, stats, history, options, models, currentIndex, strategy, autoFallback,
                   inflight, started, rrRun>>

\* ------------------------------------------------------------------- clock
Tick ==
    /\ now < StartMs + MaxTicks * TickMs
    /\ now' = now + TickMs
    /\ last' = Idle
    /\ UNCHANGED <<stats, history, options, models, currentIndex, strategy, autoFallback,
                   usageCount, inflight, started, rrRun>>

ChatArrives == \E body \in Bodies : Chat(body.messages, body.model)

Resumes ==
    \E req \in BagToSet(inflight), usage \in UsageReports :
       \E headers \in HeaderSets(req.provider), chunks \in Unchunked :
          Resume(req, headers, usage, chunks)

\* The provider always answers that the model's budget is used up.
ResumesExhausted ==
    \E req \in BagToSet(inflight), usage \in UsageReports :
       \E headers \in ExhaustedHeaderSets \cap HeaderSets(req.provider) :
          \E chunks \in Unchunked : Resume(req, headers, usage, chunks)

Fails == \E req \in BagToSet(inflight) : Fail(req)

\* The gateway as index.ts builds it, its three routes and the clock.
Next ==
    \/ ChatArrives
    \/ Resumes
    \/ Fails
    \/ GetModels
    \/ GetUsage
    \/ Tick

Spec == Init /\ [][Next]_vars

\* A manager built with any options, its setters, and providers that report
\* exhausted budgets.
NextManager ==
    \/ ChatArrives
    \/ ResumesExhausted
    \/ \E s \in Strategies : setStrategy(s)
    \/ resetUsageCount

SpecManager == InitManager /\ [][NextManager]_vars

\* ---------------------------------------------- the tracker under one model
\* Requests that name their model (of estimated cost 1 and 2), and providers
\* whose responses may carry no rate-limit header at all, a value that is
\* not a number, or only a retry-after.
NamedBodies ==
    { [messages |-> ms, model |-> id] :
        ms \in { <<Message("user", 1)>>, <<Message("user", 1), Message("user", 1)>> },
        id \in {"g1", "c1"} }

MalformedGroqHeaders ==
    [k \in {"x-ratelimit-remaining-requests", "x-ratelimit-remaining-tokens"} |->
        <<"x">>]
MalformedCerebrasHeaders ==
    [k \in {"x-ratelimit-remaining-requests-day", "x-ratelimit-remaining-tokens-minute"} |->
        <<"x">>]
RetryAfterHeaders == [k \in {"retry-after"} |-> <<"1">>]

AnyHeaderSets(provider) ==
    HeaderSets(provider) \cup {NoHeaders}
      \cup (IF provider = "groq" THEN {MalformedGroqHeaders, RetryAfterHeaders}
            ELSE {MalformedCerebrasHeaders})

NamedChatArrives == \E body \in NamedBodies : Chat(body.messages, body.model)

ResumesAny ==
    \E req \in BagToSet(inflight), usage \in UsageReports :
       \E headers \in AnyHeaderSets(req.provider), chunks \in Unchunked :
          Resume(req, headers, usage, chunks)

NextTracker ==
    \/ NamedChatArrives
    \/ ResumesAny
    \/ Tick

SpecTracker == Init /\ [][NextTracker]_vars

\* ------------------------------------------------- the tracker across days
\* Bodies the handler serves: one left to the rotation and one that names an
\* enabled model.
ServedBodies ==
    { [messages |-> <<Message("user", 1), Message("user", 1)>>, model |-> id]
        : id \in {"", "c1"} }

ServedChatArrives == \E body \in ServedBodies : Chat(body.messages, body.model)

\* The wall clock passes a local midnight: Date.now() is a day later.
NextDay ==
    /\ now < StartMs + MaxDays * DayMs
    /\ now' = now + DayMs
    /\ last' = Idle
    /\ UNCHANGED <<stats, history, options, models, currentIndex, strategy, autoFallback,
                   usageCount, inflight, started, rrRun>>

\* The gateway of index.ts over several days: requests, their responses and
\* GET /usage.
NextDays ==
    \/ ServedChatArrives
    \/ Resumes
    \/ GetUsage
    \/ NextDay

SpecDays == Init /\ [][NextDays]_vars

\* ------------------------------------------------- streams chunk by chunk
\* Numbers of content chunks a provider's stream may carry.
StreamLengths == 0..MaxChunks

\* A response arrives with a stream of some length, a chunk is yielded and
\* written, or a drained stream completes.
ResumesChunked ==
    \E req \in BagToSet(inflight), usage \in UsageReports :
       \E headers \in HeaderSets(req.provider), chunks \in StreamLengths :
          Resume(req, headers, usage, chunks)

NextStream ==
    \/ ServedChatArrives
    \/ ResumesChunked
    \/ Fails

SpecStream == Init /\ [][NextStream]_vars

\* -------------------------------------------------------- the two estimators
\* Message lists handed to the estimators: up to MaxMessages messages whose
\* contents are not strings or strings of these lengths.
MaxMessages == 3
ContentLengths == {NotString, 0, 1, 2, 3, 4, 5, 200, 400}
MessageLists ==
    UNION { { [i \in 1..n |-> Message("user", f[i])] : f \in [1..n -> ContentLengths] }
            : n \in 0..MaxMessages }

\* The gateway of index.ts with a message list at hand.
InitEstimate ==
    /\ now = StartMs
    /\ stats = EmptyMap
    /\ history = <<>>
    /\ options = IndexOptions
    /\ models = ConstructModels(IndexOptions)
    /\ strategy = IndexOptions.strategy
    /\ autoFallback = IndexOptions.autoFallback
    /\ currentIndex = 0
    /\ usageCount = EmptyMap
    /\ inflight = EmptyBag
    /\ started = 0
    /\ rrRun = [ids |-> <<>>, fresh |-> TRUE]
    /\ \E ms \in MessageLists : last = [Event("init") EXCEPT !.messages = ms]

\* getNextModel estimates the messages for its checks.
ManagerEstimates ==
    /\ last' = [Event("estimateTokens") EXCEPT
                   !.messages = last.messages,
                   !.estimate = estimateTokens(last.messages)]
    /\ UNCHANGED <<now, stats, history, options, models, currentIndex, strategy,
                   autoFallback, usageCount, inflight, started, rrRun>>

\* The /chat handler estimates the messages for recordRequest.
HandlerEstimates ==
    /\ last' = [Event("estimatedTokens") EXCEPT
                   !.messages = last.messages,
                   !.cost = estimatedTokens(last.messages)]
    /\ UNCHANGED <<now, stats, history, options, models, currentIndex, strategy,
                   autoFallback, usageCount, inflight, started, rrRun>>

NextEstimate ==
    \/ ManagerEstimates
    \/ HandlerEstimates

SpecEstimate == InitEstimate /\ [][NextEstimate]_vars

\* ------------------------------------------------------- the usage history
\* recordUsage calls the model lets a long-running tracker take.
MaxAppends == 3

\* The i-th record of a tracker that has been running: records are told
\* apart by the input tokens the provider reported.
EarlierRecord(i) ==
    [modelId |-> "g1", provider |-> "groq", timestamp |-> StartMs,
     inputTokens |-> i, outputTokens |-> 2]

\* Lengths of the history the tracker has reached: around empty, around
\* half the cap and around the cap.
HistoryLengths ==
    {0, 1, (maxHistorySize \div 2) - 1, maxHistorySize \div 2,
     maxHistorySize - 2, maxHistorySize - 1, maxHistorySize}

\* Token counts of a drained stream.
StreamUsages == { [inputTokens |-> 1, outputTokens |-> 2],
                  [inputTokens |-> 0, outputTokens |-> 0] }

\* The gateway of index.ts after the tracker has recorded n completions.
InitHistory ==
    /\ now = StartMs
    /\ stats = EmptyMap
    /\ options = IndexOptions
    /\ models = ConstructModels(IndexOptions)
    /\ strategy = IndexOptions.strategy
    /\ autoFallback = IndexOptions.autoFallback
    /\ currentIndex = 0
    /\ usageCount = EmptyMap
    /\ inflight = EmptyBag
    /\ started = 0
    /\ last = Event("init")
    /\ rrRun = [ids |-> <<>>, fresh |-> TRUE]
    /\ \E n \in HistoryLengths : history = [i \in 1..n |-> EarlierRecord(i)]

\* A stream of a model is drained: recordUsage.  `started` counts the calls.
RecordsUsage ==
    /\ started < MaxAppends
    /\ \E i \in DOMAIN models, usage \in StreamUsages :
         LET T == recordUsage([stats |-> stats, history |-> history],
                              models[i].id, models[i].provider,
                              usage.inputTokens, usage.outputTokens, now)
         IN  /\ history' = T.history
             /\ stats' = T.stats
    /\ started' = started + 1
    /\ last' = Idle
    /\ UNCHANGED <<now, options, models, currentIndex, strategy, autoFallback,
                   usageCount, inflight, rrRun>>

NextHistory == RecordsUsage

SpecHistory == InitHistory /\ [][NextHistory]_vars

\* ================================================================ properties
\* Largest estimated token cost the properties quantify over.
MaxCost == 3
Costs == 0..MaxCost

\* The configured model with an id (enabled ones only reach the tracker).
ModelById(id) == getModel([models |-> getEnabledModels], id)

\* The result of canRequest(model, cost) now, for a model with a budget entry.
CheckNow(id, cost) == canRequest(stats, ModelById(id), cost, now).check

\* The rule a check's result comes from.
RuleOf(check) ==
    CASE check.allowed -> "allow"
      [] check.reason.text = "Rate limited: Retry after" -> "cooldown"
      [] check.reason.text = "Daily requests exhausted: Reset in" -> "requests"
      [] check.reason.text = "Token limit (TPM): Reset in" -> "tokens"
      [] OTHER -> "?"

\* The instants after which an entry's request and token counters are taken
\* as replenished: groq stores them; cerebras stores the seconds reported at
\* lastUpdated.
ResetRequestsInstant(entry) ==
    IF entry.provider = "groq" THEN entry.rateLimitState.resetRequestsAt
    ELSE entry.rateLimitState.lastUpdated
           + entry.rateLimitState.resetRequestsDaySeconds * 1000
ResetTokensInstant(entry) ==
    IF entry.provider = "groq" THEN entry.rateLimitState.resetTokensAt
    ELSE entry.rateLimitState.lastUpdated
           + entry.rateLimitState.resetTokensMinuteSeconds * 1000
CooldownActive(entry) ==
    /\ entry.provider = "groq"
    /\ TruthyNum(entry.rateLimitState.retryAfter)
    /\ entry.rateLimitState.lastUpdated + entry.rateLimitState.retryAfter * 1000 > now

\* The entry's request reset instant lies in the future (never so when the
\* stored seconds are not a number).
RequestResetInFuture(entry) ==
    /\ entry.provider = "cerebras" => ~IsNaN(entry.rateLimitState.resetRequestsDaySeconds)
    /\ ResetRequestsInstant(entry) > now

\* Every counter and reset field of the entry is a number.
Numeric(entry) ==
    /\ ~IsNaN(entry.rateLimitState.remainingRequestsDay)
    /\ ~IsNaN(entry.rateLimitState.remainingTokensMinute)
    /\ entry.provider = "cerebras" =>
          /\ ~IsNaN(entry.rateLimitState.resetRequestsDaySeconds)
          /\ ~IsNaN(entry.rateLimitState.resetTokensMinuteSeconds)

\* The rule the stated order picks for an entry and a cost.
StatedRule(entry, cost) ==
    IF CooldownActive(entry) THEN "cooldown"
    ELSE IF entry.rateLimitState.remainingRequestsDay <= 0
            /\ ResetRequestsInstant(entry) > now THEN "requests"
    ELSE IF entry.rateLimitState.remainingTokensMinute < cost
            /\ ResetTokensInstant(entry) > now THEN "tokens"
    ELSE "allow"

\* C1: for a model of either provider family, canRequest(model, cost) decides
\* by the first matching rule: an active retryAfter cooldown, then remaining
\* requests <= 0 with the request reset instant still in the future, then
\* remaining tokens < cost with the token reset instant still in the future,
\* and otherwise it allows.
C1_FirstMatchingRule ==
    \A id \in DOMAIN stats : \A cost \in Costs :
        Numeric(stats[id]) => RuleOf(CheckNow(id, cost)) = StatedRule(stats[id], cost)

\* C2: whenever a model's stored remaining request counter is <= 0 (negative
\* included) and its request reset instant is in the future, canRequest
\* denies for every estimated cost >= 0.
C2_AdmissionMonotonicity ==
    \A id \in DOMAIN stats : \A cost \in Costs :
        ( /\ Le(stats[id].rateLimitState.remainingRequestsDay, 0)
          /\ RequestResetInFuture(stats[id]) )
        => ~CheckNow(id, cost).allowed

\* A /chat request has just had a candidate denied whose stored counter is
\* negative and whose reset instant is in the future.
C2_Witness ==
    /\ last.op = "chat"
    /\ \E i \in DOMAIN last.skipped :
          LET id == last.skipped[i].id
          IN  /\ last.skipped[i].reason.text = "Daily requests exhausted: Reset in"
              /\ id \in DOMAIN stats
              /\ Lt(stats[id].rateLimitState.remainingRequestsDay, 0)
              /\ RequestResetInFuture(stats[id])

\* C3: for a model whose stored remaining request counter is <= 0, once the
\* clock has passed the request reset instant (no updateFromHeaders since),
\* canRequest no longer denies on the request budget.
C3_ResetReplenishment ==
    \A id \in DOMAIN stats :
        ( /\ Numeric(stats[id])
          /\ stats[id].rateLimitState.remainingRequestsDay <= 0
          /\ ~(ResetRequestsInstant(stats[id]) > now) )
        => RuleOf(CheckNow(id, 0)) # "requests"

\* What updateFromHeaders is to leave in a field for a reported header.
Reported(headers, name) == parseInt(headers[name])

\* C4: after an updateFromHeaders call for a model, whatever recordRequest
\* decrements came before it, every remaining, limit and reset field the call
\* reports holds exactly the reported value.
C4_ReconciliationPrecedence ==
    last.op = "updateFromHeaders" =>
        /\ last.model \in DOMAIN stats
        /\ LET st == stats[last.model].rateLimitState
               h  == last.headers
               Is(name, value) == Has(h, name) => value = Reported(h, name)
           IN  IF stats[last.model].provider = "groq"
               THEN /\ Is("x-ratelimit-remaining-requests", st.remainingRequestsDay)
                    /\ Is("x-ratelimit-remaining-tokens", st.remainingTokensMinute)
                    /\ Is("x-ratelimit-limit-requests", st.limitRequestsDay)
                    /\ Is("x-ratelimit-limit-tokens", st.limitTokensMinute)
                    /\ Has(h, "x-ratelimit-reset-requests") =>
                          st.resetRequestsAt =
                             now + parseGroqDuration(h["x-ratelimit-reset-requests"])
                    /\ Has(h, "x-ratelimit-reset-tokens") =>
                          st.resetTokensAt =
                             now + parseGroqDuration(h["x-ratelimit-reset-tokens"])
               ELSE /\ Is("x-ratelimit-remaining-requests-day", st.remainingRequestsDay)
                    /\ Is("x-ratelimit-remaining-tokens-minute", st.remainingTokensMinute)
                    /\ Is("x-ratelimit-limit-requests-day", st.limitRequestsDay)
                    /\ Is("x-ratelimit-limit-tokens-minute", st.limitTokensMinute)
                    /\ Is("x-ratelimit-reset-requests-day", st.resetRequestsDaySeconds)
                    /\ Is("x-ratelimit-reset-tokens-minute", st.resetTokensMinuteSeconds)

\* updateFromHeaders has just overwritten, with a full set of headers, an
\* entry that two recordRequest calls had decremented since it was seeded.
C4_Witness ==
    /\ last.op = "updateFromHeaders"
    /\ Cardinality(DOMAIN last.headers) = 6
    /\ last.entryBefore.requestsToday >= 2
    /\ last.entryBefore.rateLimitState.lastUpdated = 0
    /\ last.entryBefore.rateLimitState.remainingTokensMinute
          # stats[last.model].rateLimitState.remainingTokensMinute

\* The candidates' ids.
CandidateIds == {models[i].id : i \in DOMAIN models}

\* `last` is a getNextModel call made by the /chat handler.
Rotated == last.op = "chat" /\ last.kind \in {"admitted", "exhausted", "rejected"}

\* C5: with auto-fallback on, under every rotation strategy, a getNextModel
\* call made while at least one candidate is admissible for the estimated cost
\* returns an admitted model instead of failing as all-exhausted.
C5_FallbackCompleteness ==
    (Rotated /\ last.autoFallback /\ last.admissible # {}) => last.kind = "admitted"

\* C6: with auto-fallback on and all K candidates denied, getNextModel fails
\* after exactly K checks with exactly K entries, one for each distinct
\* candidate with that candidate's own reason, whichever the strategy.
C6_FallbackExhaustion ==
    (Rotated /\ last.autoFallback /\ last.admissible = {}) =>
        /\ last.kind = "exhausted"
        /\ Len(last.checked) = Len(models)
        /\ Len(last.skipped) = Len(models)
        /\ {last.skipped[i].id : i \in DOMAIN last.skipped} = CandidateIds
        /\ \A i \in DOMAIN last.skipped :
              last.skipped[i].reason = CheckNow(last.skipped[i].id, last.estimate).reason

\* C7: a model getNextModel returns is one of the fixed candidates (enabled,
\* passing the provider and id filters of the options), canRequest allowed it
\* for the estimated cost in that call, and its check was not denied.
C7_ReturnedIsAdmittedCandidate ==
    (Rotated /\ last.kind = "admitted") =>
        /\ last.model \in CandidateIds
        /\ ModelById(last.model).enabled
        /\ Len(options.providers) > 0 =>
              Includes(options.providers, ModelById(last.model).provider)
        /\ Len(options.modelIds) > 0 => Includes(options.modelIds, last.model)
        /\ last.model \in last.admissible
        /\ last.model = last.checked[Len(last.checked)]
        /\ \A i \in DOMAIN last.skipped : last.skipped[i].id # last.model

\* getNextModel has returned a model after skipping a denied candidate.
C7_Witness ==
    /\ Rotated
    /\ last.kind = "admitted"
    /\ last.skipped # <<>>
    /\ Len(models) = 2

\* C8: while no updateFromHeaders has arrived for a model seeded with request
\* limit R, at most R requests are admitted on it, and once its optimistic
\* remaining-request counter is 0 canRequest denies.
C8_OverAdmissionBound ==
    \A id \in DOMAIN stats :
        stats[id].rateLimitState.lastUpdated = 0 =>
            /\ stats[id].requestsToday <= stats[id].rateLimitState.limitRequestsDay
            /\ stats[id].rateLimitState.remainingRequestsDay <= 0 =>
                  ~CheckNow(id, 0).allowed

\* C9: a /chat request's recordRequest decrements the very budget entry its
\* admission check passed on: no other request's check or decrement on the
\* model comes in between.
C9_AtomicCheckAndDecrement ==
    (last.op = "chat" /\ last.status = 0) => last.entryAtCheck = last.entryAtRecord

\* A /chat request has been checked and recorded on a model while another
\* request on the same model is still in flight.
C9_Witness ==
    /\ last.op = "chat"
    /\ last.status = 0
    /\ \E r \in BagToSet(inflight) :
          /\ r.id = last.model
          /\ \/ CopiesIn(r, inflight) >= 2
             \/ \E r2 \in BagToSet(inflight) : r2 # r /\ r2.id = last.model

\* C10: the ids returned by consecutive round-robin getNextModel calls without
\* rejections follow the configured order cyclically up to the cursor; K such
\* calls return each of the K candidates exactly once, and from a fresh router
\* they are the configured order itself.
C10_RoundRobinFairness ==
    LET K == Len(models)
        n == Len(rrRun.ids)
    IN  /\ n <= K
        /\ \A i \in 1..n :
              rrRun.ids[i] = models[((currentIndex + K - n + i - 1) % K) + 1].id
        /\ n = K => \A j \in DOMAIN models :
                       Cardinality({i \in 1..n : rrRun.ids[i] = models[j].id}) = 1
        /\ rrRun.fresh => \A i \in 1..n : rrRun.ids[i] = models[i].id

\* K = 2 consecutive round-robin calls without rejections have returned.
C10_Witness ==
    /\ Rotated
    /\ last.strategy = "round-robin"
    /\ Len(models) = 2
    /\ Len(rrRun.ids) = 2

\* The usage counter of a candidate as the latest getNextModel call found it.
CountBefore(id) == CountOf(usageCount, id) - (IF id = last.model THEN 1 ELSE 0)

\* C11: the model a least-used getNextModel call returns had the lowest usage
\* counter of all candidates when it was selected, and is the first in list
\* order among those with that counter: equal counters are served in list
\* order, and a candidate with more admissions than another is not returned.
C11_LeastUsedTieBreak ==
    (Rotated /\ last.kind = "admitted" /\ last.strategy = "least-used") =>
        \E i \in DOMAIN models :
            /\ models[i].id = last.model
            /\ \A j \in DOMAIN models :
                  CountBefore(models[j].id) >= CountBefore(last.model)
            /\ \A j \in 1..(i - 1) :
                  CountBefore(models[j].id) > CountBefore(last.model)

\* After an admission to the first candidate, a least-used call has returned
\* the second one.
C11_Witness ==
    /\ Rotated
    /\ last.kind = "admitted"
    /\ last.strategy = "least-used"
    /\ Len(models) = 2
    /\ last.model = models[2].id
    /\ CountBefore(models[1].id) = 1
    /\ CountBefore(models[2].id) = 0

\* The requests so far were getNextModel admissions only, n of them, on
\* candidates seeded with a request limit of 1, and no response headers have
\* arrived yet.
RECURSIVE SumCounts(_)
SumCounts(ms) ==
    IF ms = <<>> THEN 0 ELSE CountOf(usageCount, Head(ms).id) + SumCounts(Tail(ms))
OnlyRotatedSoFar(n) ==
    /\ Len(models) = 2
    /\ strategy = "round-robin"
    /\ autoFallback
    /\ SumCounts(models) = n
    /\ \A i \in DOMAIN models :
          /\ models[i].limits.requestsPerDay = 1
          /\ models[i].id \in DOMAIN stats =>
                /\ stats[models[i].id].rateLimitState.lastUpdated = 0
                /\ stats[models[i].id].requestsToday = CountOf(usageCount, models[i].id)
          /\ models[i].id \notin DOMAIN stats => CountOf(usageCount, models[i].id) = 0

\* C12: on a fresh router and tracker with two candidates A and B of request
\* limit 1, round-robin, auto-fallback on, the first request admits A and
\* leaves A's remaining day-requests at 0, the second admits B, and a third
\* fails as all-exhausted with exactly the 2 skip entries A, B.
C12_Scenario ==
    /\ (Rotated /\ OnlyRotatedSoFar(1)) =>
          /\ last.model = models[1].id
          /\ stats[models[1].id].rateLimitState.remainingRequestsDay = 0
    /\ (Rotated /\ OnlyRotatedSoFar(2)) => last.model = models[2].id
    /\ OnlyRotatedSoFar(2) =>
          \A body \in Bodies :
             body.model = "" =>
                \A o \in ChatSelect(Manager, stats, body.messages, body.model, now) :
                   o.status # 400 =>
                      /\ o.kind = "exhausted"
                      /\ Len(o.skipped) = 2
                      /\ o.skipped[1].id = models[1].id
                      /\ o.skipped[2].id = models[2].id

\* The message lists of the bodies left to the rotation.
RotatedMessages == {body.messages : body \in {b \in Bodies : b.model = ""}}

\* C13: in every state of a running gateway, under every strategy and either
\* auto-fallback setting, a getNextModel call ends at once, after at least one
\* and at most |candidates| admission checks, with an admitted candidate or
\* with an error that carries a reason; the call made last did so too.
C13_TerminatesWithoutWaiting ==
    /\ Running =>
          \A messages \in RotatedMessages :
             LET outcomes == getNextModel(Manager, stats, messages, now)
             IN  /\ outcomes # {}
                 /\ \A o \in outcomes :
                       /\ o.kind \in {"admitted", "exhausted", "rejected"}
                       /\ Len(o.checked) \in 1..Len(models)
                       /\ o.kind = "admitted" => o.model.id \in CandidateIds
                       /\ o.kind # "admitted" => o.skipped # <<>>
    /\ Rotated => Len(last.checked) \in 1..Len(models)

\* A getNextModel call has given up after checking each of 2 candidates.
C13_Witness ==
    /\ Rotated
    /\ last.kind = "exhausted"
    /\ Len(models) = 2
    /\ Len(last.checked) = 2

\* C14: with auto-fallback off, a getNextModel call whose first candidate is
\* denied fails at once with exactly that candidate's reason, and checks no
\* second candidate; with auto-fallback off no call checks more than one.
C14_NoFallbackFailsAtOnce ==
    (Rotated /\ ~last.autoFallback) =>
        /\ Len(last.checked) = 1
        /\ last.kind \in {"admitted", "rejected"}
        /\ last.kind = "rejected" =>
              /\ last.status = 429
              /\ Len(last.skipped) = 1
              /\ last.skipped[1].id = last.checked[1]
              /\ last.skipped[1].reason = CheckNow(last.checked[1], last.estimate).reason
              /\ ~CheckNow(last.checked[1], last.estimate).allowed

\* With auto-fallback off a call was rejected on its first candidate while
\* the other candidate was admissible.
C14_Witness ==
    /\ Rotated
    /\ ~last.autoFallback
    /\ last.kind = "rejected"
    /\ Len(models) = 2
    /\ last.admissible # {}

\* C15: a ModelManager whose filters leave no enabled candidate is not
\* constructed: the constructor throws, nothing runs on it, and getNextModel
\* is never run over an empty candidate set; a constructed one keeps the
\* candidates its options select.
C15_EmptyCandidateSetFailsConstruction ==
    /\ models = ConstructModels(options)
    /\ ConstructModels(options) = <<>> =>
          /\ last.op = "init"
          /\ stats = EmptyMap
          /\ inflight = EmptyBag
    /\ last.op = "chat" => Len(models) > 0

\* Options whose provider and id filters exclude every enabled model.
C15_Witness ==
    /\ Len(options.providers) > 0
    /\ Len(options.modelIds) > 0
    /\ ConstructModels(options) = <<>>
    /\ models = <<>>
    /\ ~Running

\* The admission check on a budget entry as it stands, for a cost.
CheckEntry(entry, cost) ==
    IF entry.provider = "groq" THEN canRequestGroq(entry, cost, now)
    ELSE canRequestCerebras(entry, cost, now)

\* `last` is a /chat request that named a known model.
Requested == last.op = "chat" /\ last.kind \in {"requested", "requested-denied"}

\* C16: a /chat request that names a known model leaves the rotation cursor
\* where it was, and is answered as rate-limited (429) exactly when canRequest
\* for that model with the estimated token cost of its messages denies, on
\* the budget entry the request found.
C16_ExplicitModelSameAdmission ==
    Requested =>
        /\ currentIndex = last.cursorBefore
        /\ LET entry == IF last.status = 0 THEN last.entryAtCheck
                        ELSE stats[last.requested]
           IN  (last.status = 429) <=>
                  ~CheckEntry(entry, estimateTokens(last.messages)).allowed

\* C17: a /chat request that passes validation and names an id the manager
\* does not know is answered 404, not 429; no candidate is checked in its
\* place, and the tracker's budgets, the history, the rotation cursor, the
\* least-used counters and the requests in flight are left as they were.
C17_UnknownModelNotFound ==
    [][ ( /\ last'.op = "chat"
          /\ last'.kind # "invalid"
          /\ last'.requested # ""
          /\ last'.requested \notin CandidateIds )
        => ( /\ last'.status = 404
             /\ last'.kind = "not-found"
             /\ last'.checked = <<>>
             /\ last'.skipped = <<>>
             /\ UNCHANGED <<stats, history, currentIndex, usageCount, inflight, started>> )
      ]_vars

\* An id the manager does not know was answered 404 while the cursor was in
\* mid-rotation, budgets existed and a request was in flight.
C17_Witness ==
    /\ last.op = "chat"
    /\ last.kind = "not-found"
    /\ last.status = 404
    /\ last.requested \notin CandidateIds
    /\ currentIndex = 1
    /\ DOMAIN stats # {}
    /\ inflight # EmptyBag

\* C18: a /chat request whose selection fails for rate-limit reasons (all
\* candidates exhausted, a single rejection with auto-fallback off, or a
\* denied requested model) is answered 429; the step records no decrement
\* (no budget field changes, no daily counter grows, a budget entry it
\* creates is the seeded one) and starts no provider call.
C18_SelectionFailureIs429 ==
    [][ ( /\ last'.op = "chat"
          /\ last'.kind \in {"exhausted", "rejected", "requested-denied"} )
        => ( /\ last'.status = 429
             /\ \A id \in DOMAIN stats' :
                   IF id \in DOMAIN stats
                   THEN /\ stats'[id].rateLimitState = stats[id].rateLimitState
                        /\ stats'[id].requestsToday <= stats[id].requestsToday
                        /\ stats'[id].tokensToday <= stats[id].tokensToday
                   ELSE stats'[id] = getStats(EmptyMap, ModelById(id), now)[id]
             /\ UNCHANGED <<inflight, history, started, usageCount>> )
      ]_vars

\* A denied requested model was answered 429 while a request was in flight.
C18_Witness ==
    /\ last.op = "chat"
    /\ last.kind = "requested-denied"
    /\ last.status = 429
    /\ inflight # EmptyBag

\* C19: the estimated token cost of a message list is the ceiling of the
\* total length of its string contents (other contents count 0) divided by
\* 4, in the manager's estimate and in the handler's: a total of 400 gives
\* 100 and no message gives 0.
C19_TokenEstimate ==
    LET total == SumLengths(last.messages)
        Stated(value) == /\ value = CeilDiv(total, 4)
                         /\ total = 400 => value = 100
                         /\ last.messages = <<>> => value = 0
    IN  /\ last.op = "estimateTokens" => Stated(last.estimate)
        /\ last.op = "estimatedTokens" => Stated(last.cost)

\* C20: recordUsage only appends to the usage history.  The step that
\* lengthens the history leaves every model's budget fields and daily
\* counters as they were, so canRequest answers the same for every model and
\* cost immediately before and after it; the manager's state is untouched.
C20_RecordUsageOnlyAppends ==
    [][ history' # history
        => ( /\ Len(history') = Len(history) + 1
             /\ SubSeq(history', 1, Len(history)) = history
             /\ stats' = stats
             /\ \A i \in DOMAIN models : \A cost \in Costs :
                   canRequest(stats', models[i], cost, now').check
                       = canRequest(stats, models[i], cost, now).check
             /\ UNCHANGED <<currentIndex, usageCount, strategy, autoFallback, models>> )
      ]_vars

\* A completed request is in the history while some model's budget denies
\* and another request is still in flight.
C20_Witness ==
    /\ history # <<>>
    /\ last = Idle
    /\ inflight # EmptyBag
    /\ \E id \in DOMAIN stats : ~CheckNow(id, 0).allowed

\* C21: the usage history never holds more than maxHistorySize entries.  A
\* recordUsage that finds room appends its record; one that would exceed the
\* cap leaves the newest maxHistorySize / 2 entries, the new record last and
\* the kept ones in the order they were appended.
C21_HistoryBounded ==
    [][ /\ Len(history) <= maxHistorySize
        /\ Len(history') <= maxHistorySize
        /\ history' # history =>
             LET n == Len(history')
                 d == Len(history) + 1 - n
             IN  /\ n = IF Len(history) + 1 > maxHistorySize
                        THEN maxHistorySize \div 2 ELSE Len(history) + 1
                 /\ \A i \in 1..(n - 1) : history'[i] = history[i + d]
                 /\ history'[n].timestamp = now
      ]_vars

\* A recordUsage on a full history left its newest half: the oldest entry
\* kept is the one appended as number maxHistorySize / 2 + 2.
C21_Witness ==
    /\ started = 1
    /\ Len(history) = maxHistorySize \div 2
    /\ history[1] = EarlierRecord((maxHistorySize \div 2) + 2)

\* The response carried no usable rate-limit value: every header is absent
\* or holds text that is not a number.
NothingReported(headers) ==
    \A name \in DOMAIN headers :
        \/ ~Has(headers, name)
        \/ IsNaN(parseInt(headers[name]))

\* C22: updateFromHeaders with missing or malformed rate-limit metadata
\* (no header, or values that are not numbers) leaves the model's counters,
\* limits, reset fields and retryAfter as they were, and canRequest for the
\* model answers every cost as it would have without the call.
C22_StaleButSafe ==
    ( /\ last.op = "updateFromHeaders"
      /\ last.entryBefore # NoEntry
      /\ NothingReported(last.headers) )
    => LET before == last.entryBefore
           after  == stats[last.model]
       IN  /\ [after.rateLimitState EXCEPT !.lastUpdated = 0]
                = [before.rateLimitState EXCEPT !.lastUpdated = 0]
           /\ \A cost \in Costs :
                 CheckEntry(after, cost) = CheckEntry(before, cost)

\* C23: the observability operations behind GET /models and GET /usage
\* (getStatus, getRateLimitInfo, getRemainingCapacity, getUsageStats) have
\* no side effect: a step of theirs creates or changes no budget entry,
\* resets no daily counter and leaves the history, the cursor, the strategy
\* and the least-used counters as they were.
C23_ObservabilityHasNoSideEffects ==
    [][ (GetModels \/ GetUsage)
        => UNCHANGED <<stats, history, currentIndex, strategy, usageCount>> ]_vars

\* The text of the time left until an instant, at clock t.
UntilRequests(instant, t) ==
    IF instant > t THEN formatDuration(CeilDiv(instant - t, 1000)) ELSE nowText
UntilTokens(instant, t) ==
    IF instant > t THEN secondsText(CeilDiv(instant - t, 1000)) ELSE nowText

\* C24: for a model of either provider, while no updateFromHeaders comes in
\* between, the reset instants getRemainingCapacity reports stay the same as
\* the clock advances, and the reset info getRateLimitInfo reports at the
\* later call is the time left from then until those instants ('now' once
\* they have passed).
C24_ResetRelativeToCallTime ==
    [][ (now' > now /\ stats' = stats)
        => \A i \in DOMAIN models :
             (models[i].id \in DOMAIN stats /\ Numeric(stats[models[i].id]))
             => LET before == getRemainingCapacity(stats, models[i], now).report
                    after  == getRemainingCapacity(stats', models[i], now').report
                    info   == getRateLimitInfo(stats', models[i], now').report
                IN  /\ after.requestsResetAt = before.requestsResetAt
                    /\ after.tokensResetAt = before.tokensResetAt
                    /\ info.resetInfo.requests = UntilRequests(before.requestsResetAt, now')
                    /\ info.resetInfo.tokens = UntilTokens(before.tokensResetAt, now')
      ]_vars

\* C25: once recordRequest has charged an admitted request, no later event
\* of the request gives the charge back: a failed provider call, a stream
\* error or a client abort leaves every budget entry as it was, and a step
\* that raises a remaining counter of a model is an updateFromHeaders for
\* that model.
C25_ChargeStands ==
    [][ /\ Fails => stats' = stats
        /\ \A id \in DOMAIN stats :
              ( \/ Gt(stats'[id].rateLimitState.remainingRequestsDay,
                      stats[id].rateLimitState.remainingRequestsDay)
                \/ Gt(stats'[id].rateLimitState.remainingTokensMinute,
                      stats[id].rateLimitState.remainingTokensMinute) )
              => (last'.op = "updateFromHeaders" /\ last'.model = id)
      ]_vars

\* Every admitted request has failed, one of them before any response
\* arrived, and its charge is still on the model's entry.
C25_Witness ==
    /\ started > 0
    /\ inflight = EmptyBag
    /\ history = <<>>
    /\ last = Idle
    /\ \E id \in DOMAIN stats :
          /\ stats[id].requestsToday > 0
          /\ stats[id].rateLimitState.lastUpdated = 0
          /\ stats[id].rateLimitState.remainingRequestsDay < SeedRequests

\* C26: setStrategy changes the active strategy only: the candidate list,
\* the round-robin cursor, the least-used counters and the tracker are as
\* before.  resetUsageCount empties the least-used counters only: strategy,
\* candidate list, cursor and the tracker's budgets are as before.
C26_SettersFrame ==
    [][ /\ (\E s \in Strategies : setStrategy(s) /\ strategy' = s)
           => UNCHANGED <<models, currentIndex, usageCount, autoFallback, stats, history>>
        /\ resetUsageCount
           => /\ usageCount' = EmptyMap
              /\ UNCHANGED <<strategy, models, currentIndex, autoFallback, stats, history>>
      ]_vars

\* The strategy was switched away from the constructed one while the cursor
\* had advanced and a least-used counter had been counted.
C26_Witness ==
    /\ last = Idle
    /\ strategy # options.strategy
    /\ currentIndex > 0
    /\ usageCount # EmptyMap
    /\ DOMAIN stats # {}

\* C27: a getNextModel call that returns a model, under any strategy, adds
\* exactly 1 to the least-used counter of that model and changes no other
\* counter; a call that fails (all candidates skipped, or the one rejected
\* with auto-fallback off) changes no counter, whatever it skipped.
C27_CountsAdmittedOnly ==
    [][ (last'.op = "chat" /\ last'.kind \in {"admitted", "exhausted", "rejected"})
        => \A i \in DOMAIN models :
             CountOf(usageCount', models[i].id)
               = CountOf(usageCount, models[i].id)
                   + (IF last'.kind = "admitted" /\ last'.model = models[i].id
                      THEN 1 ELSE 0)
      ]_vars

\* A round-robin call skipped a candidate and returned the next one, which
\* had been counted before.
C27_Witness ==
    /\ last.op = "chat"
    /\ last.kind = "admitted"
    /\ last.strategy = "round-robin"
    /\ Len(last.skipped) = 1
    /\ CountOf(usageCount, last.model) >= 1
    /\ CountOf(usageCount, last.skipped[1].id) = 1

Floor0(n) == IF n < 0 THEN 0 ELSE n

\* C28: recordRequest lowers the model's remaining requests by 1 and its
\* remaining tokens by the cost it is given, never below 0; so for a model
\* no updateFromHeaders has reached yet, neither the stored remaining
\* counters nor those getRemainingCapacity and getRateLimitInfo report are
\* below 0.
C28_DecrementsFloorClamped ==
    /\ (last.op = "chat" /\ last.status = 0) =>
          LET before == last.entryAtRecord.rateLimitState
              after  == stats[last.model].rateLimitState
          IN  (last.entryAtRecord.rateLimitState.lastUpdated = 0) =>
                 /\ after.remainingRequestsDay = Floor0(before.remainingRequestsDay - 1)
                 /\ after.remainingTokensMinute
                       = Floor0(before.remainingTokensMinute - last.cost)
    /\ \A i \in DOMAIN models :
          LET id == models[i].id
          IN  (id \in DOMAIN stats /\ stats[id].rateLimitState.lastUpdated = 0) =>
                 /\ stats[id].rateLimitState.remainingRequestsDay >= 0
                 /\ stats[id].rateLimitState.remainingTokensMinute >= 0
                 /\ getRemainingCapacity(stats, models[i], now).report.requests >= 0
                 /\ getRemainingCapacity(stats, models[i], now).report.tokens >= 0
                 /\ getRateLimitInfo(stats, models[i], now).report.remainingRequests >= 0
                 /\ getRateLimitInfo(stats, models[i], now).report.remainingTokens >= 0

\* A counter that has not gone up (a counter that is not a number stays so).
NotRaised(before, after) == Le(after, before) \/ (IsNaN(before) /\ IsNaN(after))

\* C29: between two updateFromHeaders calls for a model its stored remaining
\* request and token counters never go up: a step that is not an
\* updateFromHeaders for the model (an admission check, a recordRequest, a
\* recordUsage, a projection, a failure, the clock) leaves each of them
\* equal or lower.
C29_MonotoneBetweenUpdates ==
    [][ \A id \in (DOMAIN stats) \cap (DOMAIN stats') :
          ~(last'.op = "updateFromHeaders" /\ last'.model = id)
          => /\ NotRaised(stats[id].rateLimitState.remainingRequestsDay,
                          stats'[id].rateLimitState.remainingRequestsDay)
             /\ NotRaised(stats[id].rateLimitState.remainingTokensMinute,
                          stats'[id].rateLimitState.remainingTokensMinute)
      ]_vars

\* The provider reported one request left for a model (with a reset time
\* that is not a number), a later recordRequest lowered the counter to 0,
\* and the clock has moved on since.
C29_Witness ==
    /\ now > StartMs
    /\ last = Idle
    /\ \E id \in DOMAIN stats :
          /\ stats[id].provider = "cerebras"
          /\ stats[id].rateLimitState.lastUpdated = StartMs
          /\ IsNaN(stats[id].rateLimitState.resetRequestsDaySeconds)
          /\ stats[id].rateLimitState.remainingRequestsDay = 0

\* canRequest denies for the entry on the retryAfter cooldown.
CooldownDenies(entry) == RuleOf(CheckEntry(entry, 0)) = "cooldown"

\* C30: a retry-after of s seconds reported at time t denies admission
\* exactly while now < t + s seconds; an updateFromHeaders call that carries
\* no retry-after header leaves the cooldown as it was: denying with the
\* same time left if it was denying, over if it was over.
C30_CooldownNotRearmed ==
    /\ ( /\ last.op = "updateFromHeaders"
         /\ Has(last.headers, "retry-after")
         /\ last.entryBefore # NoEntry
         /\ last.entryBefore.provider = "groq" )
       => ( CooldownDenies(stats[last.model])
              <=> now < now + parseInt(last.headers["retry-after"]) * 1000 )
    /\ ( /\ last.op = "updateFromHeaders"
         /\ ~Has(last.headers, "retry-after")
         /\ last.entryBefore # NoEntry
         /\ last.entryBefore.provider = "groq"
         /\ TruthyNum(last.entryBefore.rateLimitState.retryAfter) )
       => /\ CooldownDenies(stats[last.model]) <=> CooldownDenies(last.entryBefore)
          /\ CooldownDenies(last.entryBefore) =>
                CheckEntry(stats[last.model], 0) = CheckEntry(last.entryBefore, 0)

\* C31: the least-used counter of a model is the number of requests admitted
\* to it since the last resetUsageCount, on every admission path: a step
\* that admits a request to the model (through the rotation or by the id the
\* request names) adds 1 to its counter, resetUsageCount sets it to 0, and no
\* other step changes it.
C31_CounterCountsAdmissions ==
    [][ \A i \in DOMAIN models :
          CountOf(usageCount', models[i].id)
            = IF resetUsageCount THEN 0
              ELSE CountOf(usageCount, models[i].id)
                     + (IF started' = started + 1 /\ last'.model = models[i].id
                        THEN 1 ELSE 0)
      ]_vars

\* C35: for every admitted request, the cost recordRequest charges is the
\* estimate canRequest was given when it admitted the request, on the
\* rotation path and on the explicit-model path alike.
C35_ChargedAsChecked ==
    (last.op = "chat" /\ last.status = 0) => last.cost = last.estimate

\* C34: a model's budget entry is created by the first tracker access that
\* names it, with its remaining counters and its limit fields equal to the
\* configured requestsPerDay and tokensPerMinute; and as long as no
\* updateFromHeaders has reached the entry, its limit fields stay equal to
\* the configured limits, whatever was admitted and decremented.
C34_LazyEntryKeepsConfiguredLimits ==
    [][ \A id \in DOMAIN stats' :
          LET limits  == ModelById(id).limits
              after   == stats'[id]
              created == IF last'.op = "chat" /\ last'.status = 0 /\ last'.model = id
                         THEN last'.entryAtCheck
                         ELSE after
          IN  /\ id \notin DOMAIN stats =>
                   /\ created.rateLimitState.remainingRequestsDay = limits.requestsPerDay
                   /\ created.rateLimitState.remainingTokensMinute = limits.tokensPerMinute
                   /\ created.rateLimitState.limitRequestsDay = limits.requestsPerDay
                   /\ created.rateLimitState.limitTokensMinute = limits.tokensPerMinute
                   /\ created.rateLimitState.lastUpdated = 0
              /\ after.rateLimitState.lastUpdated = 0 =>
                   /\ after.rateLimitState.limitRequestsDay = limits.requestsPerDay
                   /\ after.rateLimitState.limitTokensMinute = limits.tokensPerMinute
      ]_vars

\* An entry no response has updated yet, charged for a request: its remaining
\* requests are below the limit.
C34_Witness ==
    \E id \in DOMAIN stats :
       /\ stats[id].rateLimitState.lastUpdated = 0
       /\ stats[id].requestsToday >= 1
       /\ stats[id].rateLimitState.remainingRequestsDay
            < stats[id].rateLimitState.limitRequestsDay

\* C36: every updateFromHeaders an adapter makes comes after a tracker access
\* that created the entry of its model: in every interleaving of requests,
\* failures, status routes and the clock, each request waiting for its
\* provider has an entry, and the update finds the entry and applies the
\* response's values to it (the entry afterwards is the one before with the
\* headers applied at the time of the response).
C36_UpdateFindsEntry ==
    /\ \A req \in BagToSet(inflight) :
          req.phase \in {"calling", "streaming"} => req.id \in DOMAIN stats
    /\ last.op = "updateFromHeaders" =>
          /\ last.entryBefore # NoEntry
          /\ last.model \in DOMAIN stats
          /\ stats[last.model].rateLimitState.lastUpdated = now
          /\ stats[last.model].rateLimitState
               = IF stats[last.model].provider = "groq"
                 THEN updateFromGroqHeaders(last.entryBefore.rateLimitState,
                                            last.headers, now)
                 ELSE updateFromCerebrasHeaders(last.entryBefore.rateLimitState,
                                                last.headers, now)

\* A response arrives for one of two requests charged to the same model, the
\* other one having ended.
C36_Witness ==
    /\ last.op = "updateFromHeaders"
    /\ started = 2
    /\ BagCardinality(inflight) = 1
    /\ last.entryBefore # NoEntry
    /\ last.entryBefore.requestsToday = 2

\* C37: the tracker's operations on one model leave every other model and
\* the router alone.  A response's updateFromHeaders changes no entry but
\* that of its model, creates none, and moves neither the cursor nor a
\* least-used counter; so do canRequest and recordRequest of a request that
\* names its model; and a request left to the rotation changes the entries of
\* the candidates it examined only.
C37_PerModelIsolation ==
    [][ /\ (last'.op = "updateFromHeaders" \/ (last'.op = "chat" /\ last'.requested # ""))
           => /\ DOMAIN stats' \subseteq DOMAIN stats \cup {last'.model}
              /\ \A id \in DOMAIN stats : id # last'.model => stats'[id] = stats[id]
              /\ currentIndex' = currentIndex
              /\ usageCount' = usageCount
        /\ (last'.op = "chat" /\ last'.requested = "")
           => /\ \A id \in DOMAIN stats' \ DOMAIN stats :
                    \E k \in DOMAIN last'.checked : last'.checked[k] = id
              /\ \A id \in DOMAIN stats :
                    (\A k \in DOMAIN last'.checked : last'.checked[k] # id)
                       => stats'[id] = stats[id]
      ]_vars

\* A request that names its model is charged while the other model has an
\* entry with a count of its own and the router has counted admissions.
C37_Witness ==
    /\ last.op = "chat"
    /\ last.status = 0
    /\ last.requested # ""
    /\ usageCount # EmptyMap
    /\ \E id \in DOMAIN stats : id # last.model /\ stats[id].requestsToday = 1

\* C38: under round-robin the cursor after a getNextModel call is the index
\* of the candidate the call examined last, plus 1, modulo the number of
\* candidates.  So after an admission it is the successor of the admitted
\* model; after a call that found every candidate exhausted it is back at
\* the value it had before the call; and with auto-fallback off a rejected
\* call has moved it on by one.
C38_CursorFollowsLastExamined ==
    (Rotated /\ last.strategy = "round-robin") =>
       LET K      == Len(models)
           n      == Len(last.checked)
           lastId == last.checked[n]
           pos    == CHOOSE i \in 1..K : models[i].id = lastId
       IN  /\ n >= 1
           /\ \E i \in 1..K : models[i].id = lastId
           /\ currentIndex = ((pos - 1) + 1) % K
           /\ currentIndex = (last.cursorBefore + n) % K
           /\ last.kind = "admitted" => last.model = lastId
           /\ last.kind = "exhausted" => (n = K /\ currentIndex = last.cursorBefore)
           /\ last.kind = "rejected" =>
                 /\ ~last.autoFallback
                 /\ n = 1
                 /\ currentIndex = (last.cursorBefore + 1) % K

\* A round-robin call over two candidates that skipped the one at the cursor
\* and admitted the other, the last of the list: the cursor wrapped round to
\* where it was.
C38_Witness ==
    /\ Rotated
    /\ last.strategy = "round-robin"
    /\ last.kind = "admitted"
    /\ Len(models) = 2
    /\ Len(last.skipped) = 1
    /\ last.model = models[2].id
    /\ currentIndex = 0
    /\ last.cursorBefore = 0

\* C39: in every reachable state of a constructed router the cursor is an
\* index into the candidate list (0 <= currentIndex < number of candidates)
\* and the candidate list is the one the constructor built from the options.
C39_CursorInRange ==
    Running =>
       /\ currentIndex \in 0..(Len(models) - 1)
       /\ models = ConstructModels(options)

\* A call over two candidates has taken the cursor from the last index back
\* to 0.
C39_Witness ==
    /\ Rotated
    /\ Len(models) = 2
    /\ last.cursorBefore = 1
    /\ currentIndex = 0

C33_RecordOnlyAfterDrain ==
    [][ /\ Len(history') + BagCardinality(inflight') <= started'
        /\ history' # history =>
              \E req \in BagToSet(inflight) :
                 /\ req.phase = "streaming"
                 /\ req.yielded = req.chunks
                 /\ inflight' = inflight (-) SetToBag({req})
                 /\ Len(history') = Len(history) + 1
                 /\ SubSeq(history', 1, Len(history)) = history
                 /\ history'[Len(history')].modelId = req.id
        /\ \A req \in BagToSet(inflight) :
              (req.phase = "streaming" /\ req.yielded < req.chunks
               /\ inflight' = inflight (-) SetToBag({req}))
                 => history' = history
      ]_vars

\* One call has completed and left its record; a second one has yielded the
\* last chunk of its stream and has not completed yet.
C33_Witness ==
    /\ started = 2
    /\ Len(history) = 1
    /\ \E req \in BagToSet(inflight) :
          /\ req.phase = "streaming"
          /\ req.chunks = MaxChunks
          /\ req.yielded = req.chunks

====
